---------------------------- MODULE Spec2Model ----------------------------
(***************************************************************************)
(* A model of the markdown-subset rendering pipeline of the chat client   *)
(* (src/src/components/FormattedText.tsx): the fenced-code block splitter *)
(* (textWithCodeBlocks), the line classifier (processLists and the header,*)
(* blockquote, horizontal-rule tests of the render loop), the list        *)
(* grouper (the collection loop and renderListItems) and the inline       *)
(* formatter (processFormattingWithCounter).                               *)
(*                                                                         *)
(* A JavaScript string is a sequence of one-character strings.  JavaScript *)
(* indices (match.index, lastIndex, slice/substring arguments) are kept   *)
(* 0-based as in the source; TLA+ sequence positions are 1-based.          *)
(***************************************************************************)
EXTENDS Integers, Sequences, FiniteSets, TLC

(***************************************************************************)
(* Characters and character classes of the regular expressions.            *)
(***************************************************************************)
NL == "\n"
SP == " "
\* The backtick character.  SANY's lexer does not accept a backtick inside a
\* string literal, so the character is written as the two-letter token "bt".
BT == "bt"
QUOTE == "\""

Digits == {"0", "1", "2", "3", "4", "5", "6", "7", "8", "9"}

Letters ==
  {"a", "b", "c", "d", "e", "f", "g", "h", "i", "j", "k", "l", "m", "n", "o",
   "p", "q", "r", "s", "t", "u", "v", "w", "x", "y", "z",
   "A", "B", "C", "D", "E", "F", "G", "H", "I", "J", "K", "L", "M", "N", "O",
   "P", "Q", "R", "S", "T", "U", "V", "W", "X", "Y", "Z"}

\* [a-zA-Z0-9]
AlNum == Letters \cup Digits

\* \s
WhiteSpace == {" ", "\n", "\t", "\r"}

(***************************************************************************)
(* String primitives.                                                      *)
(***************************************************************************)
Min(S) == CHOOSE x \in S : \A y \in S : x <= y

\* The least element of a set of positions, 0 when there is none.
FirstOf(S) == IF S = {} THEN 0 ELSE Min(S)

\* pat occurs in t at (1-based) position p.
StartsAt(t, pat, p) ==
  /\ p >= 1
  /\ p + Len(pat) - 1 <= Len(t)
  /\ SubSeq(t, p, p + Len(pat) - 1) = pat

\* The first (1-based) position >= from at which pat occurs in t, or 0.
IndexFrom(t, pat, from) ==
  FirstOf({p \in from..Len(t) : StartsAt(t, pat, p)})

\* String.prototype.slice(a, b) / substring(a, b) for 0 <= a, b (0-based, end exclusive).
Slice(t, a, b) == SubSeq(t, a + 1, b)

\* String.prototype.slice(a): from 0-based index a to the end.
SliceFrom(t, a) == SubSeq(t, a + 1, Len(t))

\* String.prototype.split(sep) for a string separator: the pieces between the
\* non-overlapping occurrences of sep, found left to right.  An empty
\* separator splits into single characters.
RECURSIVE Split(_, _)
Split(t, sep) ==
  IF sep = <<>>
    THEN [i \in 1..Len(t) |-> <<t[i]>>]
    ELSE LET p == IndexFrom(t, sep, 1)
         IN  IF p = 0
               THEN <<t>>
               ELSE <<SubSeq(t, 1, p - 1)>>
                      \o Split(SubSeq(t, p + Len(sep), Len(t)), sep)

\* Array.prototype.join(sep).
RECURSIVE Join(_, _)
Join(parts, sep) ==
  IF parts = <<>> THEN <<>>
  ELSE IF Len(parts) = 1 THEN parts[1]
  ELSE parts[1] \o sep \o Join(Tail(parts), sep)

\* The number of leading / trailing whitespace characters of t.
LeadingSpaces(t) ==
  LET stops == {p \in 1..Len(t) : t[p] \notin WhiteSpace}
  IN  IF stops = {} THEN Len(t) ELSE Min(stops) - 1

TrailingSpaces(t) ==
  LET stops == {p \in 1..Len(t) : t[p] \notin WhiteSpace}
  IN  IF stops = {} THEN Len(t)
      ELSE Len(t) - (CHOOSE p \in stops : \A q \in stops : q <= p)

\* String.prototype.trim().
Trim(t) ==
  IF LeadingSpaces(t) = Len(t) THEN <<>>
  ELSE SubSeq(t, LeadingSpaces(t) + 1, Len(t) - TrailingSpaces(t))

\* The end (exclusive, 1-based) of the longest run of characters of class cls
\* that starts at position p.
RunEnd(t, cls, p) ==
  LET stops == {q \in p..Len(t) : t[q] \notin cls}
  IN  IF stops = {} THEN Len(t) + 1 ELSE Min(stops)

\* The result of a failed match (null).
NoMatch ==
  [found |-> FALSE, index |-> 0, full |-> <<>>,
   g1 |-> <<>>, g2 |-> <<>>, g3 |-> <<>>]


(***************************************************************************)
(* The regular expressions of FormattedText.tsx.  Every matcher returns    *)
(* what String.prototype.match / RegExp.prototype.exec return: the         *)
(* leftmost match, quantifiers resolved in the engine's backtracking order *)
(* (lazy: shortest first; greedy: longest first).  An undefined capture    *)
(* group is the empty string: the source only tests such groups for        *)
(* truthiness.                                                             *)
(***************************************************************************)
Fence == <<BT, BT, BT>>

\* /```(?:([a-zA-Z0-9]+)\n)?([\s\S]*?)```/ tried with the opening fence at
\* position p: first with the optional tag group, then without it.
CodeBlockAt(text, p) ==
  LET tagEnd == RunEnd(text, AlNum, p + 3)
      hasTag == tagEnd > p + 3 /\ tagEnd <= Len(text) /\ text[tagEnd] = NL
      closeTag == IF hasTag THEN IndexFrom(text, Fence, tagEnd + 1) ELSE 0
      closeBare == IndexFrom(text, Fence, p + 3)
  IN  IF ~StartsAt(text, Fence, p) THEN NoMatch
      ELSE IF closeTag # 0
        THEN [found |-> TRUE, index |-> p - 1,
              full |-> SubSeq(text, p, closeTag + 2),
              g1 |-> SubSeq(text, p + 3, tagEnd - 1),
              g2 |-> SubSeq(text, tagEnd + 1, closeTag - 1),
              g3 |-> <<>>]
      ELSE IF closeBare # 0
        THEN [found |-> TRUE, index |-> p - 1,
              full |-> SubSeq(text, p, closeBare + 2),
              g1 |-> <<>>,
              g2 |-> SubSeq(text, p + 3, closeBare - 1),
              g3 |-> <<>>]
      ELSE NoMatch

\* An exec whose pattern lets the end of the input close a fence.
CodeBlockExecOrEnd(text, from) ==
  LET starts == {p \in (from + 1)..Len(text) : CodeBlockAt(text, p).found}
      opens == {p \in (from + 1)..Len(text) : StartsAt(text, Fence, p)}
  IN  IF starts # {} THEN CodeBlockAt(text, Min(starts))
      ELSE IF opens # {}
        THEN [found |-> TRUE, index |-> Min(opens) - 1,
              full |-> SubSeq(text, Min(opens), Len(text)),
              g1 |-> <<>>,
              g2 |-> SubSeq(text, Min(opens) + 3, Len(text)),
              g3 |-> <<>>]
      ELSE NoMatch

\* codeBlockRegex.exec(text) with the g flag: the leftmost match that starts
\* at or after lastIndex (0-based).
CodeBlockExec(text, from) ==
  LET starts == {p \in (from + 1)..Len(text) : CodeBlockAt(text, p).found}
  IN  IF starts = {} THEN NoMatch ELSE CodeBlockAt(text, Min(starts))

\* A pattern without the caption group: /!\[(.*?)\]\((.*?)\)/.
ImageCaptionNever(text, u) ==
  [ok |-> FALSE, from |-> 0, to |-> 0, last |-> 0]

\* The tail of the image pattern after "](" at position m:
\* (.*?)(?:\s+"(.*?)")?\)   The url is extended one character at a time; at
\* each length the caption group is tried before the bare ")".
ImageCaptionAt(text, u) ==
  LET w == RunEnd(text, WhiteSpace, u)
      ends == {q \in (w + 1)..(Len(text) - 1) :
                 text[q] = QUOTE /\ text[q + 1] = ")"}
  IN  IF w > u /\ w <= Len(text) /\ text[w] = QUOTE /\ ends # {}
        THEN [ok |-> TRUE, from |-> w + 1, to |-> Min(ends) - 1,
              last |-> Min(ends) + 1]
        ELSE [ok |-> FALSE, from |-> 0, to |-> 0, last |-> 0]

ImageUrlEnds(text, m) ==
  {u \in (m + 2)..(Len(text) + 1) :
     \/ ImageCaptionAt(text, u).ok
     \/ (u <= Len(text) /\ text[u] = ")")}

\* /!\[(.*?)\]\((.*?)(?:\s+"(.*?)")?\)/ tried with "![" at position s.
ImageAt(text, s) ==
  LET mids == {m \in (s + 2)..Len(text) :
                 StartsAt(text, <<"]", "(">>, m) /\ ImageUrlEnds(text, m) # {}}
  IN  IF ~StartsAt(text, <<"!", "[">>, s) \/ mids = {} THEN NoMatch
      ELSE LET m == Min(mids)
               u == Min(ImageUrlEnds(text, m))
               cap == ImageCaptionAt(text, u)
               last == IF cap.ok THEN cap.last ELSE u
           IN  [found |-> TRUE, index |-> s - 1,
                full |-> SubSeq(text, s, last),
                g1 |-> SubSeq(text, s + 2, m - 1),
                g2 |-> SubSeq(text, m + 2, u - 1),
                g3 |-> IF cap.ok THEN SubSeq(text, cap.from, cap.to) ELSE <<>>]

ImageMatch(text) ==
  LET starts == {s \in 1..Len(text) : ImageAt(text, s).found}
  IN  IF starts = {} THEN NoMatch ELSE ImageAt(text, Min(starts))

\* /D(.+?)D/ for a literal delimiter D, tried with the opening D at position s:
\* the closing D is the first one that leaves at least one character inside.
DelimitedAt(text, d, s) ==
  LET e == IndexFrom(text, d, s + Len(d) + 1)
  IN  IF ~StartsAt(text, d, s) \/ e = 0 THEN NoMatch
      ELSE [found |-> TRUE, index |-> s - 1,
            full |-> SubSeq(text, s, e + Len(d) - 1),
            g1 |-> SubSeq(text, s + Len(d), e - 1),
            g2 |-> <<>>, g3 |-> <<>>]

DelimitedMatch(text, d) ==
  LET starts == {s \in 1..Len(text) : DelimitedAt(text, d, s).found}
  IN  IF starts = {} THEN NoMatch ELSE DelimitedAt(text, d, Min(starts))

\* /\*\*(.+?)\*\*/
BoldMatch(text) == DelimitedMatch(text, <<"*", "*">>)

\* /\*(.+?)\*/
ItalicMatch(text) == DelimitedMatch(text, <<"*">>)

\* /~~(.+?)~~/
StrikethroughMatch(text) == DelimitedMatch(text, <<"~", "~">>)

\* /`([^`]+)`/ tried with the opening backtick at position s.
InlineCodeAt(text, s) ==
  LET e == RunEnd(text, {text[q] : q \in 1..Len(text)} \ {BT}, s + 1)
  IN  IF s > Len(text) \/ text[s] # BT \/ e = s + 1 \/ e > Len(text)
        THEN NoMatch
        ELSE [found |-> TRUE, index |-> s - 1,
              full |-> SubSeq(text, s, e),
              g1 |-> SubSeq(text, s + 1, e - 1),
              g2 |-> <<>>, g3 |-> <<>>]

InlineCodeMatch(text) ==
  LET starts == {s \in 1..Len(text) : InlineCodeAt(text, s).found}
  IN  IF starts = {} THEN NoMatch ELSE InlineCodeAt(text, Min(starts))

\* /\[(.+?)\]\((.+?)\)/ tried with "[" at position s.
LinkAt(text, s) ==
  LET mids == {m \in (s + 2)..Len(text) :
                 /\ StartsAt(text, <<"]", "(">>, m)
                 /\ IndexFrom(text, <<")">>, m + 3) # 0}
  IN  IF ~StartsAt(text, <<"[">>, s) \/ mids = {} THEN NoMatch
      ELSE LET m == Min(mids)
               e == IndexFrom(text, <<")">>, m + 3)
           IN  [found |-> TRUE, index |-> s - 1,
                full |-> SubSeq(text, s, e),
                g1 |-> SubSeq(text, s + 1, m - 1),
                g2 |-> SubSeq(text, m + 2, e - 1),
                g3 |-> <<>>]

LinkMatch(text) ==
  LET starts == {s \in 1..Len(text) : LinkAt(text, s).found}
  IN  IF starts = {} THEN NoMatch ELSE LinkAt(text, Min(starts))

(***************************************************************************)
(* split(fullMatch): the text before the first occurrence of the matched   *)
(* string, and the rest after it (parts.slice(1).join(fullMatch)).         *)
(***************************************************************************)
Prefix(text, fullMatch) == Split(text, fullMatch)[1]

\* A suffix that is the second part only (parts[1]).
SuffixSecondPart(text, fullMatch) == Split(text, fullMatch)[2]

\* A suffix built from all the parts (parts.join instead of parts.slice(1).join).
SuffixOfAllParts(text, fullMatch) == Join(Split(text, fullMatch), fullMatch)

Suffix(text, fullMatch) == Join(Tail(Split(text, fullMatch)), fullMatch)

(***************************************************************************)
(* The line classifier.                                                    *)
(***************************************************************************)
\* trimmedLine.match(/^(-|\*)\s+(.*)/)
BulletMatch(trimmed) ==
  LET w == RunEnd(trimmed, WhiteSpace, 2)
  IN  IF Len(trimmed) >= 2 /\ trimmed[1] \in {"-", "*"} /\ w > 2
        THEN [found |-> TRUE, index |-> 0, full |-> trimmed,
              g1 |-> <<trimmed[1]>>,
              g2 |-> SubSeq(trimmed, w, Len(trimmed)), g3 |-> <<>>]
        ELSE NoMatch

\* trimmedLine.match(/^(\d+)\.\s+(.*)/)
NumberedMatch(trimmed) ==
  LET d == RunEnd(trimmed, Digits, 1)
      w == RunEnd(trimmed, WhiteSpace, d + 1)
  IN  IF d > 1 /\ d <= Len(trimmed) /\ trimmed[d] = "." /\ w > d + 1
        THEN [found |-> TRUE, index |-> 0, full |-> trimmed,
              g1 |-> SubSeq(trimmed, 1, d - 1),
              g2 |-> SubSeq(trimmed, w, Len(trimmed)), g3 |-> <<>>]
        ELSE NoMatch

\* One iteration of lines.forEach in processLists (index is 0-based).
ProcessLine(line, index) ==
  LET trimmedLine == Trim(line)
      spaces == LeadingSpaces(line)
      level == spaces \div 2
      bulletMatch == BulletMatch(trimmedLine)
      numberedMatch == NumberedMatch(trimmedLine)
  IN  IF bulletMatch.found
        THEN [line |-> line, isListItem |-> TRUE, isBulletList |-> TRUE,
              isNumberedList |-> FALSE, level |-> level,
              content |-> bulletMatch.g2, index |-> index,
              bulletOrNumber |-> <<"bullet">>]
      ELSE IF numberedMatch.found
        THEN [line |-> line, isListItem |-> TRUE, isBulletList |-> FALSE,
              isNumberedList |-> TRUE, level |-> level,
              content |-> numberedMatch.g2, index |-> index,
              bulletOrNumber |-> numberedMatch.g1 \o <<".">>]
      ELSE [line |-> line, isListItem |-> FALSE, isBulletList |-> FALSE,
            isNumberedList |-> FALSE, level |-> 0,
            content |-> line, index |-> index,
            bulletOrNumber |-> <<>>]

processLists(lines) == [n \in 1..Len(lines) |-> ProcessLine(lines[n], n - 1)]

\* line.trim().match(/^(#{1,6})\s+(.+)$/): g1 the hashes, g2 the content.  The
\* line is trimmed, so the whitespace run is followed by at least one character.
HeaderMatch(trimmed) ==
  LET h == RunEnd(trimmed, {"#"}, 1)
      w == RunEnd(trimmed, WhiteSpace, h)
  IN  IF h > 1 /\ h <= 7 /\ w > h /\ w <= Len(trimmed)
        THEN [found |-> TRUE, index |-> 0, full |-> trimmed,
              g1 |-> SubSeq(trimmed, 1, h - 1),
              g2 |-> SubSeq(trimmed, w, Len(trimmed)), g3 |-> <<>>]
        ELSE NoMatch

\* line.trim().startsWith('>')
IsBlockquote(trimmed) == Len(trimmed) >= 1 /\ trimmed[1] = ">"

\* line.trim().match(/^([-*_])\1{2,}$/)
HrMatch(trimmed) ==
  /\ Len(trimmed) >= 3
  /\ trimmed[1] \in {"-", "*", "_"}
  /\ \A q \in 1..Len(trimmed) : trimmed[q] = trimmed[1]

(***************************************************************************)
(* Rendered nodes and pending work.  The rendered tree is written out in   *)
(* document order; each node carries its depth in the tree, so a node's    *)
(* parent is the nearest earlier node that is one level up.                *)
(***************************************************************************)
Node(kind, depth, text, url, caption, line, level) ==
  [kind |-> kind, depth |-> depth, text |-> text, url |-> url,
   caption |-> caption, line |-> line, level |-> level]

NoNode == Node("none", 0, <<>>, <<>>, <<>>, 0, 0)

\* A React element waiting to be written out.
Emit(node) == [op |-> "emit", s |-> <<>>, depth |-> node.depth, node |-> node]

\* A <ParseInlineFormatting text=s> element waiting to be rendered.
Parse(s, depth) == [op |-> "parse", s |-> s, depth |-> depth, node |-> NoNode]

\* A pending call processFormattingWithCounter(s, counter).
Fmt(s, depth) == [op |-> "fmt", s |-> s, depth |-> depth, node |-> NoNode]

\* The counter++ that follows the construction of a wrapping span.
Close == [op |-> "close", s |-> <<>>, depth |-> 0, node |-> NoNode]

(***************************************************************************)
(* CodeHighlighter and processKeywords.  A segment is a node: "Code" for   *)
(* unstyled text, "Keyword", "String", "Comment".                          *)
(***************************************************************************)
LangJavascript == <<"j", "a", "v", "a", "s", "c", "r", "i", "p", "t">>

LangTypescript == <<"t", "y", "p", "e", "s", "c", "r", "i", "p", "t">>

LangPython == <<"p", "y", "t", "h", "o", "n">>

LangJava == <<"j", "a", "v", "a">>

LangCsharp == <<"c", "s", "h", "a", "r", "p">>

LangCpp == <<"c", "p", "p">>

LangGo == <<"g", "o">>

LangRust == <<"r", "u", "s", "t">>

LangSwift == <<"s", "w", "i", "f", "t">>

\* The languages CodeHighlighter highlights.
SupportedLanguages ==
  { LangJavascript, LangTypescript, LangPython, LangJava, LangCsharp,
    LangCpp, LangGo, LangRust, LangSwift }

\* keywordRegexMap: the words of /\b(...)\b/g for each language.
Keywords(language) ==
  CASE language = LangJavascript ->
         { <<"c", "o", "n", "s", "t">>, <<"l", "e", "t">>, <<"v", "a", "r">>,
           <<"f", "u", "n", "c", "t", "i", "o", "n">>,
           <<"r", "e", "t", "u", "r", "n">>, <<"i", "f">>,
           <<"e", "l", "s", "e">>, <<"f", "o", "r">>,
           <<"w", "h", "i", "l", "e">>, <<"c", "l", "a", "s", "s">>,
           <<"i", "m", "p", "o", "r", "t">>,
           <<"e", "x", "p", "o", "r", "t">>, <<"f", "r", "o", "m">>,
           <<"o", "f">>, <<"i", "n">>, <<"t", "r", "u", "e">>,
           <<"f", "a", "l", "s", "e">>, <<"n", "u", "l", "l">>,
           <<"u", "n", "d", "e", "f", "i", "n", "e", "d">>,
           <<"t", "h", "i", "s">>, <<"n", "e", "w">>, <<"t", "r", "y">>,
           <<"c", "a", "t", "c", "h">>, <<"t", "h", "r", "o", "w">>,
           <<"a", "s", "y", "n", "c">>, <<"a", "w", "a", "i", "t">> }
    [] language = LangTypescript ->
         { <<"c", "o", "n", "s", "t">>, <<"l", "e", "t">>, <<"v", "a", "r">>,
           <<"f", "u", "n", "c", "t", "i", "o", "n">>,
           <<"r", "e", "t", "u", "r", "n">>, <<"i", "f">>,
           <<"e", "l", "s", "e">>, <<"f", "o", "r">>,
           <<"w", "h", "i", "l", "e">>, <<"c", "l", "a", "s", "s">>,
           <<"i", "m", "p", "o", "r", "t">>,
           <<"e", "x", "p", "o", "r", "t">>, <<"f", "r", "o", "m">>,
           <<"o", "f">>, <<"i", "n">>, <<"t", "r", "u", "e">>,
           <<"f", "a", "l", "s", "e">>, <<"n", "u", "l", "l">>,
           <<"u", "n", "d", "e", "f", "i", "n", "e", "d">>,
           <<"t", "h", "i", "s">>, <<"n", "e", "w">>, <<"t", "r", "y">>,
           <<"c", "a", "t", "c", "h">>, <<"t", "h", "r", "o", "w">>,
           <<"a", "s", "y", "n", "c">>, <<"a", "w", "a", "i", "t">>,
           <<"i", "n", "t", "e", "r", "f", "a", "c", "e">>,
           <<"t", "y", "p", "e">>, <<"e", "n", "u", "m">> }
    [] language = LangPython ->
         { <<"d", "e", "f">>, <<"c", "l", "a", "s", "s">>, <<"i", "f">>,
           <<"e", "l", "i", "f">>, <<"e", "l", "s", "e">>, <<"f", "o", "r">>,
           <<"w", "h", "i", "l", "e">>, <<"r", "e", "t", "u", "r", "n">>,
           <<"i", "m", "p", "o", "r", "t">>, <<"f", "r", "o", "m">>,
           <<"a", "s">>, <<"t", "r", "y">>, <<"e", "x", "c", "e", "p", "t">>,
           <<"f", "i", "n", "a", "l", "l", "y">>,
           <<"r", "a", "i", "s", "e">>, <<"w", "i", "t", "h">>, <<"i", "n">>,
           <<"i", "s">>, <<"n", "o", "t">>, <<"a", "n", "d">>, <<"o", "r">>,
           <<"T", "r", "u", "e">>, <<"F", "a", "l", "s", "e">>,
           <<"N", "o", "n", "e">> }
    [] language = LangJava ->
         { <<"p", "u", "b", "l", "i", "c">>,
           <<"p", "r", "i", "v", "a", "t", "e">>,
           <<"p", "r", "o", "t", "e", "c", "t", "e", "d">>,
           <<"c", "l", "a", "s", "s">>,
           <<"i", "n", "t", "e", "r", "f", "a", "c", "e">>,
           <<"e", "n", "u", "m">>, <<"e", "x", "t", "e", "n", "d", "s">>,
           <<"i", "m", "p", "l", "e", "m", "e", "n", "t", "s">>,
           <<"r", "e", "t", "u", "r", "n">>, <<"i", "f">>,
           <<"e", "l", "s", "e">>, <<"f", "o", "r">>,
           <<"w", "h", "i", "l", "e">>, <<"n", "e", "w">>, <<"t", "r", "y">>,
           <<"c", "a", "t", "c", "h">>, <<"t", "h", "r", "o", "w">>,
           <<"t", "h", "r", "o", "w", "s">>,
           <<"s", "t", "a", "t", "i", "c">>, <<"f", "i", "n", "a", "l">>,
           <<"v", "o", "i", "d">>, <<"i", "n", "t">>,
           <<"b", "o", "o", "l", "e", "a", "n">>,
           <<"S", "t", "r", "i", "n", "g">> }
    [] language = LangCsharp ->
         { <<"p", "u", "b", "l", "i", "c">>,
           <<"p", "r", "i", "v", "a", "t", "e">>,
           <<"p", "r", "o", "t", "e", "c", "t", "e", "d">>,
           <<"c", "l", "a", "s", "s">>,
           <<"i", "n", "t", "e", "r", "f", "a", "c", "e">>,
           <<"e", "n", "u", "m">>, <<"s", "t", "r", "u", "c", "t">>,
           <<"r", "e", "t", "u", "r", "n">>, <<"i", "f">>,
           <<"e", "l", "s", "e">>, <<"f", "o", "r">>,
           <<"f", "o", "r", "e", "a", "c", "h">>,
           <<"w", "h", "i", "l", "e">>, <<"n", "e", "w">>, <<"t", "r", "y">>,
           <<"c", "a", "t", "c", "h">>, <<"t", "h", "r", "o", "w">>,
           <<"u", "s", "i", "n", "g">>, <<"s", "t", "a", "t", "i", "c">>,
           <<"r", "e", "a", "d", "o", "n", "l", "y">>,
           <<"v", "o", "i", "d">>, <<"i", "n", "t">>, <<"b", "o", "o", "l">>,
           <<"s", "t", "r", "i", "n", "g">> }
    [] language = LangCpp ->
         { <<"c", "l", "a", "s", "s">>, <<"s", "t", "r", "u", "c", "t">>,
           <<"r", "e", "t", "u", "r", "n">>, <<"i", "f">>,
           <<"e", "l", "s", "e">>, <<"f", "o", "r">>,
           <<"w", "h", "i", "l", "e">>, <<"n", "e", "w">>, <<"t", "r", "y">>,
           <<"c", "a", "t", "c", "h">>, <<"t", "h", "r", "o", "w">>,
           <<"u", "s", "i", "n", "g">>,
           <<"n", "a", "m", "e", "s", "p", "a", "c", "e">>,
           <<"t", "e", "m", "p", "l", "a", "t", "e">>,
           <<"t", "y", "p", "e", "n", "a", "m", "e">>,
           <<"c", "o", "n", "s", "t">>, <<"a", "u", "t", "o">>,
           <<"s", "t", "a", "t", "i", "c">>, <<"v", "o", "i", "d">>,
           <<"i", "n", "t">>, <<"b", "o", "o", "l">>, <<"c", "h", "a", "r">>,
           <<"f", "l", "o", "a", "t">>, <<"d", "o", "u", "b", "l", "e">> }
    [] language = LangGo ->
         { <<"f", "u", "n", "c">>, <<"p", "a", "c", "k", "a", "g", "e">>,
           <<"i", "m", "p", "o", "r", "t">>,
           <<"r", "e", "t", "u", "r", "n">>, <<"i", "f">>,
           <<"e", "l", "s", "e">>, <<"f", "o", "r">>,
           <<"r", "a", "n", "g", "e">>, <<"s", "w", "i", "t", "c", "h">>,
           <<"c", "a", "s", "e">>, <<"d", "e", "f", "e", "r">>, <<"g", "o">>,
           <<"c", "h", "a", "n">>, <<"v", "a", "r">>,
           <<"c", "o", "n", "s", "t">>, <<"s", "t", "r", "u", "c", "t">>,
           <<"i", "n", "t", "e", "r", "f", "a", "c", "e">>,
           <<"m", "a", "p">>, <<"t", "y", "p", "e">> }
    [] language = LangRust ->
         { <<"f", "n">>, <<"l", "e", "t">>, <<"m", "u", "t">>,
           <<"c", "o", "n", "s", "t">>, <<"u", "s", "e">>, <<"m", "o", "d">>,
           <<"s", "t", "r", "u", "c", "t">>, <<"e", "n", "u", "m">>,
           <<"t", "r", "a", "i", "t">>, <<"i", "m", "p", "l">>,
           <<"p", "u", "b">>, <<"r", "e", "t", "u", "r", "n">>, <<"i", "f">>,
           <<"e", "l", "s", "e">>, <<"f", "o", "r">>,
           <<"w", "h", "i", "l", "e">>, <<"l", "o", "o", "p">>,
           <<"m", "a", "t", "c", "h">>, <<"s", "e", "l", "f">>,
           <<"S", "e", "l", "f">>, <<"c", "r", "a", "t", "e">>,
           <<"s", "u", "p", "e", "r">> }
    [] language = LangSwift ->
         { <<"f", "u", "n", "c">>, <<"v", "a", "r">>, <<"l", "e", "t">>,
           <<"r", "e", "t", "u", "r", "n">>, <<"i", "f">>,
           <<"e", "l", "s", "e">>, <<"f", "o", "r">>,
           <<"w", "h", "i", "l", "e">>, <<"g", "u", "a", "r", "d">>,
           <<"s", "w", "i", "t", "c", "h">>, <<"c", "a", "s", "e">>,
           <<"c", "l", "a", "s", "s">>, <<"s", "t", "r", "u", "c", "t">>,
           <<"e", "n", "u", "m">>,
           <<"p", "r", "o", "t", "o", "c", "o", "l">>,
           <<"e", "x", "t", "e", "n", "s", "i", "o", "n">>,
           <<"i", "m", "p", "o", "r", "t">>, <<"s", "e", "l", "f">>,
           <<"S", "e", "l", "f">> }
    [] OTHER -> {}

\* \w
WordChars == AlNum \cup {"_"}

\* The characters the regex dot does not match.
LineTerminators == {"\n", "\r"}

\* No line terminator in t from position p on.
DotToEnd(t, p) == \A q \in p..Len(t) : t[q] \notin LineTerminators

\* line.match(commentRegex): /(#.*)$/ for python, else
\* /(\/\/.*|\/\*.*\*\/)$/ ; the leftmost start from which the pattern
\* reaches the end of the line.
CommentMatch(line, language) ==
  LET starts ==
        IF language = LangPython
          THEN {p \in 1..Len(line) : line[p] = "#" /\ DotToEnd(line, p + 1)}
          ELSE {p \in 1..Len(line) :
                  \/ StartsAt(line, <<"/", "/">>, p) /\ DotToEnd(line, p + 2)
                  \/ /\ StartsAt(line, <<"/", "*">>, p)
                     /\ Len(line) - 1 >= p + 2
                     /\ StartsAt(line, <<"*", "/">>, Len(line) - 1)
                     /\ DotToEnd(line, p + 2)}
  IN  IF starts = {} THEN NoMatch
      ELSE [found |-> TRUE, index |-> Min(starts) - 1,
            full |-> SubSeq(line, Min(starts), Len(line)),
            g1 |-> SubSeq(line, Min(starts), Len(line)),
            g2 |-> <<>>, g3 |-> <<>>]

\* stringRegex /(['"`])(.*?)\1/ tried at position p: a quote, then as little
\* as possible up to the same quote, on one line.
StringAt(s, p) ==
  LET closes == {q \in (p + 1)..Len(s) : s[q] = s[p]}
  IN  IF p <= Len(s) /\ s[p] \in {"'", QUOTE, BT} /\ closes # {}
         /\ \A q \in (p + 1)..(Min(closes) - 1) : s[q] \notin LineTerminators
        THEN [found |-> TRUE, index |-> p - 1,
              full |-> SubSeq(s, p, Min(closes)),
              g1 |-> <<s[p]>>,
              g2 |-> SubSeq(s, p + 1, Min(closes) - 1),
              g3 |-> <<>>]
        ELSE NoMatch

\* processedStringRegex.exec(s) with the g flag, from lastIndex.
StringExec(s, from) ==
  LET starts == {p \in (from + 1)..Len(s) : StringAt(s, p).found}
  IN  IF starts = {} THEN NoMatch ELSE StringAt(s, Min(starts))

\* keywordRegex tried at position p: a whole word that is a keyword.
KeywordAt(s, p, language) ==
  LET e == RunEnd(s, WordChars, p)
  IN  IF /\ p <= Len(s)
         /\ s[p] \in WordChars
         /\ (p = 1 \/ s[p - 1] \notin WordChars)
         /\ SubSeq(s, p, e - 1) \in Keywords(language)
        THEN [found |-> TRUE, index |-> p - 1, full |-> SubSeq(s, p, e - 1),
              g1 |-> SubSeq(s, p, e - 1), g2 |-> <<>>, g3 |-> <<>>]
        ELSE NoMatch

\* regex.exec(text) with the g flag, from lastIndex.
KeywordExec(s, from, language) ==
  LET starts == {p \in (from + 1)..Len(s) : KeywordAt(s, p, language).found}
  IN  IF starts = {} THEN NoMatch ELSE KeywordAt(s, Min(starts), language)

Segment(kind, s) == Node(kind, 3, s, <<>>, <<>>, 0, 0)

\* The while loop of processKeywords from lastIndex on, and the text after
\* the last keyword.
RECURSIVE KeywordLoop(_, _, _)
KeywordLoop(s, lastIndex, language) ==
  LET m == KeywordExec(s, lastIndex, language)
  IN  IF m.found
        THEN (IF m.index > lastIndex
                THEN <<Segment("Code", Slice(s, lastIndex, m.index))>>
                ELSE <<>>)
               \o <<Segment("Keyword", m.full)>>
               \o KeywordLoop(s, m.index + Len(m.full), language)
      ELSE IF lastIndex < Len(s)
        THEN <<Segment("Code", SliceFrom(s, lastIndex))>>
      ELSE <<>>

processKeywords(s, language) ==
  IF language \notin SupportedLanguages
    THEN <<Segment("Code", s)>>
    ELSE KeywordLoop(s, 0, language)

\* The while loop over the strings of s from lastIndex on, and the text
\* after the last string.
RECURSIVE StringLoop(_, _, _)
StringLoop(s, lastIndex, language) ==
  LET m == StringExec(s, lastIndex)
  IN  IF m.found
        THEN (IF m.index > lastIndex
                THEN processKeywords(Slice(s, lastIndex, m.index), language)
                ELSE <<>>)
               \o <<Segment("String", m.full)>>
               \o StringLoop(s, m.index + Len(m.full), language)
      ELSE IF lastIndex < Len(s)
        THEN processKeywords(SliceFrom(s, lastIndex), language)
      ELSE <<>>

\* A code before the comment that stops one character early.
CodeBeforeCommentShort(line, m) == Slice(line, 0, m.index - 1)

\* line.substring(0, commentMatch.index)
CodeBeforeComment(line, m) == Slice(line, 0, m.index)

\* The components of one line.
LineComponents(line, language) ==
  LET m == CommentMatch(line, language)
  IN  IF m.found
        THEN StringLoop(CodeBeforeComment(line, m), 0, language)
               \o <<Segment("Comment", m.full)>>
        ELSE StringLoop(line, 0, language)

\* <Text key=code-line-index> {components or line} {newline} </Text>
CodeLine(line, index, nLines, language) ==
  LET components == LineComponents(line, language)
  IN  <<Node("CodeLine", 2, <<>>, <<>>, <<>>, index, 0)>>
        \o (IF components # <<>> THEN components
            ELSE IF line # <<>> THEN <<Segment("Code", line)>> ELSE <<>>)
        \o (IF index < nLines - 1 THEN <<Segment("LineBreak", <<NL>>)>>
            ELSE <<>>)

RECURSIVE CodeLines(_, _, _)
CodeLines(lines, index, language) ==
  IF index >= Len(lines) THEN <<>>
  ELSE CodeLine(lines[index + 1], index, Len(lines), language)
         \o CodeLines(lines, index + 1, language)

\* <CodeHighlighter code language>: the elements it returns, in document
\* order.
CodeHighlighter(code, language) ==
  IF language = <<>> \/ language \notin SupportedLanguages
    THEN <<Node("CodeText", 2, code, <<>>, <<>>, 0, 0)>>
    ELSE CodeLines(Split(code, <<NL>>), 0, language)

(***************************************************************************)
(* renderListItems(items, parentLevel, listGroupId): the elements it       *)
(* returns, in document order.  ListLoop is its while loop from j (1-based *)
(* here); depth is the depth of the fragment it returns.                   *)
(***************************************************************************)
RECURSIVE renderListItems(_, _, _)
RECURSIVE ListLoop(_, _, _, _)

\* The index k at which the collection of nested items stops.
NestedEnd(items, parentLevel, j) ==
  LET stops == {k \in (j + 1)..Len(items) : ~(items[k].level > parentLevel)}
  IN  IF stops = {} THEN Len(items) + 1 ELSE Min(stops)

ListLoop(items, parentLevel, depth, j) ==
  IF j > Len(items) THEN <<>>
  ELSE IF items[j].level = parentLevel
    THEN LET k == NestedEnd(items, parentLevel, j)
             nestedItems == SubSeq(items, j + 1, k - 1)
             item == items[j]
         IN  << Emit(Node("ListItem", depth + 1, item.bulletOrNumber, <<>>,
                          <<>>, item.index, item.level)),
                Parse(item.content, depth + 2) >>
             \o (IF Len(nestedItems) > 0
                   THEN renderListItems(nestedItems, parentLevel + 1, depth + 2)
                   ELSE <<>>)
             \o ListLoop(items, parentLevel, depth, k)
    ELSE ListLoop(items, parentLevel, depth, j + 1)

renderListItems(items, parentLevel, depth) ==
  <<Emit(Node("ListGroup", depth, <<>>, <<>>, <<>>, 0, parentLevel))>>
    \o ListLoop(items, parentLevel, depth, 1)

\* A collection that takes the whole run of list lines, whatever their levels.
CollectEndOfRun(processedLines, i) ==
  LET stops == {n \in i..(Len(processedLines) - 1) :
                  ~processedLines[n + 1].isListItem}
  IN  IF stops = {} THEN Len(processedLines) ELSE Min(stops)

\* The end (exclusive, 0-based) of the items collected from line i on: the
\* collection loop "while (i < length && isListItem && level >= currentLevel)".
CollectEnd(processedLines, i) ==
  LET currentLevel == processedLines[i + 1].level
      stops == {n \in i..(Len(processedLines) - 1) :
                  ~(processedLines[n + 1].isListItem
                    /\ processedLines[n + 1].level >= currentLevel)}
  IN  IF stops = {} THEN Len(processedLines) ELSE Min(stops)

(***************************************************************************)
(* The inputs: every concatenation of a few pieces, for each family of     *)
(* syntax, and the examples of the specification's section 8.              *)
(***************************************************************************)
MaxInlinePieces == 4
MaxFencePieces == 5
MaxLines == 3

MaxCodePieces == 3

MaxTextChanges == 1

MaxMessageChanges == 2

MaxCalls == 3

MaxListeners == 3

MaxTime == 2

RECURSIVE Concats(_, _)
Concats(P, n) ==
  IF n = 0 THEN {<<>>}
  ELSE LET S == Concats(P, n - 1) IN S \cup {s \o q : s \in S, q \in P}

InlinePieces ==
  { <<"a">>, <<"*">>, <<"*", "*">>, <<"~", "~">>, <<BT>>,
    <<"!", "[">>, <<"[">>, <<"]", "(">>, <<")">> }

FencePieces == { Fence, <<BT>>, <<"a">>, <<NL>>, <<"+">> }

LinePieces ==
  { <<"-", SP, "a">>,
    <<SP, SP, "-", SP, "b">>,
    <<SP, SP, SP, SP, "*", SP, "c">>,
    <<"1", ".", SP, "d">>,
    <<"e">>,
    <<"#", SP, "f">>,
    <<">", SP, "g">>,
    <<"-", "-", "-">> }

RECURSIVE LineTexts(_)
LineTexts(n) ==
  IF n = 1 THEN LinePieces
  ELSE LET S == LineTexts(n - 1)
       IN  S \cup {s \o <<NL>> \o q : s \in S, q \in LinePieces}

Examples ==
  { \* inline code holding asterisks
    <<BT, "c", SP, "*", "a", "*", BT>>,
    \* bold inside italic, italic inside bold
    <<"*", "i", SP, "*", "*", "b", "*", "*", SP, "t", "*">>,
    <<"*", "*", "b", SP, "*", "i", "*", SP, "t", "*", "*">>,
    \* a tagged fence spanning the input, with a two-line body
    Fence \o <<"p", "y", NL, "d", NL, SP, "p", NL>> \o Fence,
    \* fences with text around them
    <<"x", NL>> \o Fence \o <<"a", NL, "b", NL>> \o Fence \o <<NL, "y">>,
    <<"x">> \o Fence \o <<"a">> \o Fence \o <<"y">> \o Fence \o <<"b">>,
    \* a nested list
    <<"-", SP, "a", NL, SP, SP, "-", SP, "b", NL, "-", SP, "c">>,
    \* a link and an image whose text holds asterisks
    <<"[", "*", "a", "*", "]", "(", "u", ")">>,
    <<"!", "[", "*", "a", "*", "]", "(", "u", ")">>,
    \* a highlighted code block between two lines
    <<"x", NL>> \o Fence
      \o <<"g", "o", NL, "i", "f", SP, QUOTE, "a", QUOTE, SP, "/", "/", "c",
           NL, "x", NL>>
      \o Fence \o <<NL, "y">>,
    \* inline code holding a link
    <<BT, "[", "a", "]", "(", "u", ")", BT>>,
    \* a list whose levels go 0, 2, 3
    <<"-", SP, "a", NL, SP, SP, SP, SP, "*", SP, "c", NL,
      SP, SP, SP, SP, SP, SP, "-", SP, "d">>,
    \* two fences, then italic inside bold
    Fence \o <<"a">> \o Fence \o <<"x">> \o Fence \o <<"b">> \o Fence
      \o <<"*", "*", "c", "*", "d", "*", "e", "*", "*">>,
    \* an image with a caption, a link, strikethrough
    <<"!", "[", "a", "]", "(", "u", SP, QUOTE, "c", QUOTE, ")">>,
    <<"[", "a", "]", "(", "u", ")">>,
    <<"x", "~", "~", "s", "~", "~", "y">> }

\* Code for the highlighter.
CodePieces ==
  { <<"i", "f">>, <<"x">>, <<SP>>, <<QUOTE>>, <<BT>>, <<"#">>, <<"/", "/">>,
    <<"/", "*">>, <<"*", "/">>, <<NL>> }

CodeExamples ==
  { \* a keyword, a string and a comment on one line
    <<"i", "f", SP, "x", SP, QUOTE, "a", QUOTE, SP, "/", "/", SP, "c">>,
    <<"x", SP, "'", "i", "f", "'", SP, "#", SP, QUOTE, "c", QUOTE>>,
    \* a comment marker inside a string, a keyword inside a longer word
    <<QUOTE, "/", "/", QUOTE, SP, "/", "*", SP, "i", "f", SP, "*", "/">>,
    <<"i", "f", "x", SP, "x", "_", "i", "f", SP, "i", "f", NL, "g", "o">> }

\* A fence with a supported language around every code.
CodeTexts ==
  { Fence \o language \o <<NL>> \o code \o Fence :
      language \in {LangGo, LangPython},
      code \in {c \in Concats(CodePieces, MaxCodePieces) \cup CodeExamples :
                  IndexFrom(c, Fence, 1) = 0} }

\* Images with a caption: ![alt](url "caption").
CaptionedImages ==
  { <<"!", "[">> \o alt \o <<"]", "(">> \o url \o <<SP, QUOTE>> \o cap
      \o <<QUOTE, ")">> :
      alt \in {<<>>, <<"a">>, <<"*", "a", "*">>},
      url \in {<<>>, <<"u">>, <<"u", "*">>},
      cap \in {<<>>, <<"c">>, <<"c", SP, "d">>} }

Inputs ==
  Concats(InlinePieces, MaxInlinePieces)
    \cup Concats(FencePieces, MaxFencePieces)
    \cup LineTexts(MaxLines)
    \cup Examples
    \cup CaptionedImages

(***************************************************************************)
(* The state of one render of <FormattedText text=...>.                    *)
(***************************************************************************)
VARIABLES
  text,            \* the text prop
  pc,              \* "split", "render", "lines", "format", "done"
  lastIndex,       \* textWithCodeBlocks: let lastIndex
  regexLastIndex,  \* codeBlockRegex.lastIndex
  match,           \* textWithCodeBlocks: let match
  blocks,          \* textWithCodeBlocks: const blocks
  blockIndex,      \* index of the block being mapped (0-based)
  processedLines,  \* processLists(lines) of the current text block
  i,               \* the render loop's line index (0-based)
  listItems,       \* the items collected by the current loop iteration
  work,            \* elements created and not yet rendered, in document order
  counter,         \* processFormattingWithCounter: counter
  out,             \* the rendered nodes, in document order
  onContentRendered, \* the onContentRendered prop: 0 when not provided
  imagesLoaded,    \* useState(0)
  totalImages,     \* useState(0)
  contentRendered, \* useState(false)
  hasNotifiedRef,  \* useRef(false)
  textRef,         \* useRef(text)
  mounted,         \* the first render has been committed
  textDeps,        \* [text] of the last run of the image count effect
  countCleanup,    \* the image count effect returned its clean-up
  notifyDeps,      \* the dependencies of the last run of the notify effect
  timer,           \* the setTimeout of the notify effect
  loads,           \* onLoad events of the images on screen
  epoch,           \* how many times a new text has been committed
  calls,           \* the calls of onContentRendered, in order
  bubble,          \* a MessageBubble: its props, state, refs and effect
  api,             \* services/api.ts, the stored API key and the calls in flight
  emitter,         \* utils/events.ts: the EventEmitter and what its listeners saw
  storage          \* services/storage.ts: the chats and rooms in AsyncStorage

\* What one render computes.
renderVars ==
  <<pc, lastIndex, regexLastIndex, match, blocks, blockIndex,
    processedLines, i, listItems, work, counter, out>>

\* The props other than text, the state, the refs and the effects of the
\* component, and what the host has seen of it.
hooks ==
  <<onContentRendered, imagesLoaded, totalImages, contentRendered,
    hasNotifiedRef, textRef, mounted, textDeps, countCleanup, notifyDeps,
    timer, loads, epoch, calls>>

\* The other components and the services of the application.
services == <<bubble, api, emitter, storage>>

\* The FormattedText component.
component == <<text, renderVars, hooks>>

vars ==
  <<text, pc, lastIndex, regexLastIndex, match, blocks, blockIndex,
    processedLines, i, listItems, work, counter, out, hooks, services>>

\* const MAX_BUBBLE_HEIGHT = 300
MAX_BUBBLE_HEIGHT == 300

\* A MessageBubble that has not rendered yet, for a message and a callback
\* (0 when onContentRendered is not provided).
NewBubble(message, callback) ==
  [message |-> message,
   onContentRendered |-> callback,
   contentHeight |-> 0,
   expanded |-> FALSE,
   hasOverflow |-> FALSE,
   initialMeasurementComplete |-> FALSE,
   hasNotifiedRef |-> FALSE,
   messageIdRef |-> message.id,
   mounted |-> FALSE,
   rendered |-> [id |-> message.id, isUser |-> message.role = "user",
                 initialMeasurementComplete |-> FALSE, hasOverflow |-> FALSE,
                 onContentRendered |-> callback],
   effectPending |-> FALSE,
   effectDeps |-> message.id,
   shown |-> 0,
   layouts |-> {},
   calls |-> <<>>]

\* null
Null == "null"

\* export const OPENROUTER_API_KEY = ''
OPENROUTER_API_KEY == ""

\* A call that has not started.
NoCall == [op |-> "none", pc |-> "idle", storedKey |-> Null]

\* services/api.ts when the module is loaded, with nothing in storage:
\* let cachedApiKey = null; let isRefreshing = false.  item is what
\* AsyncStorage holds under the key's name, keyStored whether a key was ever
\* stored, requests the HTTP calls made, errors the calls of sendMessage
\* that threw 'API key is not set'.
NewApi ==
  [cachedApiKey |-> Null,
   isRefreshing |-> FALSE,
   item |-> Null,
   keyStored |-> FALSE,
   calls |-> [t \in 1..MaxCalls |-> NoCall],
   requests |-> <<>>,
   errors |-> {}]

\* The name of the event used: the lists of other events are not touched by
\* on, the unsubscribe function and emit.
Events == {"CHATS_UPDATED"}

\* new EventEmitter(): private events = {}; a missing entry is written as
\* the empty list, which emit reads it as.  A registered callback is kept
\* with the number of its registration.  registered counts the calls of on,
\* handles are the unsubscribe functions on has returned: the event and the
\* callback each closes over.  last is the call made last, with the list
\* of the event before the call, and invoked the listeners it called.
NewEmitter ==
  [events |-> [event \in Events |-> <<>>],
   registered |-> 0,
   handles |-> <<>>,
   last |-> [op |-> "none", event |-> "", reg |-> 0, before |-> <<>>,
             threw |-> FALSE],
   invoked |-> <<>>]

\* The ids of the chats and of the rooms the callers use.
ChatIds == {"c1", "c2"}

RoomIds == {"r1", "r2"}

\* lastMessageTime?: number, when it is missing
Undefined == -1

\* AsyncStorage with no chats and no rooms: what is stored under
\* CHATS_STORAGE_KEY and ROOMS_KEY, as the lists getChats and getRooms
\* parse.  now is the clock, emitted the payload of the last event, and
\* lastSaved the chat last saved under each id, <<>> for none.
NewStorage ==
  [chats |-> <<>>,
   rooms |-> <<>>,
   now |-> 1,
   emitted |-> <<>>,
   lastSaved |-> [id \in ChatIds |-> <<>>]]

\* The state of the other components and of the services before anything
\* has run.
ServicesInit ==
  /\ bubble = NewBubble([id |-> 1, role |-> "assistant"], 0)
  /\ api = NewApi
  /\ emitter = NewEmitter
  /\ storage = NewStorage

\* No timer is pending.
NoTimer == [pending |-> FALSE, callback |-> 0, epoch |-> 0]

\* The hooks of a component that has not rendered yet, for the callback cb.
HooksInit(cb) ==
  /\ onContentRendered = cb
  /\ imagesLoaded = 0
  /\ totalImages = 0
  /\ contentRendered = FALSE
  /\ hasNotifiedRef = FALSE
  /\ textRef = text
  /\ mounted = FALSE
  /\ textDeps = text
  /\ countCleanup = FALSE
  /\ notifyDeps = <<0, 0, FALSE, cb>>
  /\ timer = NoTimer
  /\ loads = 0
  /\ epoch = 0
  /\ calls = <<>>

Init ==
  /\ text \in Inputs
  /\ pc = "split"
  /\ lastIndex = 0
  /\ regexLastIndex = 0
  /\ match = NoMatch
  /\ blocks = <<>>
  /\ blockIndex = 0
  /\ processedLines = <<>>
  /\ i = 0
  /\ listItems = <<>>
  /\ work = <<>>
  /\ counter = 0
  /\ out = <<>>
  /\ HooksInit(0)
  /\ ServicesInit

\* if (!text) return null
ReturnNull ==
  /\ pc = "split"
  /\ text = <<>>
  /\ pc' = "done"
  /\ UNCHANGED <<text, lastIndex, regexLastIndex, match, blocks, blockIndex,
                 processedLines, i, listItems, work, counter, out>>
  /\ UNCHANGED <<hooks, services>>

TextBlock(content) ==
  [type |-> "text", content |-> content, language |-> <<>>]

CodeBlock(content, language) ==
  [type |-> "codeBlock", content |-> content, language |-> language]

\* A lastIndex that stops one character short of the end of the match.
AfterMatchShort(m) == m.index + Len(m.full) - 1

\* lastIndex = match.index + match[0].length
AfterMatch(m) == m.index + Len(m.full)

\* Blocks whose code content has lost a final newline.
MatchBlocksTrimmed(t, last, m) ==
  (IF m.index > last THEN <<TextBlock(Slice(t, last, m.index))>> ELSE <<>>)
    \o <<CodeBlock(IF m.g2 # <<>> /\ m.g2[Len(m.g2)] = NL
                     THEN SubSeq(m.g2, 1, Len(m.g2) - 1) ELSE m.g2,
                   m.g1)>>

\* The blocks pushed by one iteration of the while loop of textWithCodeBlocks.
MatchBlocks(t, last, m) ==
  (IF m.index > last THEN <<TextBlock(Slice(t, last, m.index))>> ELSE <<>>)
    \o <<CodeBlock(m.g2, m.g1)>>

\* The block pushed after the loop.
RemainingBlocks(t, last) ==
  IF last < Len(t) THEN <<TextBlock(SliceFrom(t, last))>> ELSE <<>>

\* One iteration of while ((match = codeBlockRegex.exec(text)) !== null).
SplitMatch ==
  /\ pc = "split"
  /\ text # <<>>
  /\ LET m == CodeBlockExec(text, regexLastIndex)
     IN  /\ m.found
         /\ match' = m
         /\ regexLastIndex' = m.index + Len(m.full)
         /\ blocks' = blocks \o MatchBlocks(text, lastIndex, m)
         /\ lastIndex' = AfterMatch(m)
  /\ UNCHANGED <<text, pc, blockIndex, processedLines, i, listItems, work,
                 counter, out>>
  /\ UNCHANGED <<hooks, services>>

\* exec returns null: the loop ends and the remaining text is added.
SplitEnd ==
  /\ pc = "split"
  /\ text # <<>>
  /\ ~CodeBlockExec(text, regexLastIndex).found
  /\ match' = NoMatch
  /\ regexLastIndex' = 0
  /\ blocks' = blocks \o RemainingBlocks(text, lastIndex)
  /\ pc' = "render"
  /\ UNCHANGED <<text, lastIndex, blockIndex, processedLines, i, listItems,
                 work, counter, out>>
  /\ UNCHANGED <<hooks, services>>

(***************************************************************************)
(* The render path: textWithCodeBlocks.map(...).  Elements are created in  *)
(* document order and appended to the pending work; React renders them     *)
(* after the component function has returned.                              *)
(***************************************************************************)
\* A code block: <View style=codeBlock> ... <CodeHighlighter code language>.
RenderCodeBlock ==
  /\ pc = "render"
  /\ blockIndex < Len(blocks)
  /\ blocks[blockIndex + 1].type = "codeBlock"
  /\ LET block == blocks[blockIndex + 1]
         highlighted == CodeHighlighter(block.content, block.language)
     IN  work' = work
                   \o <<Emit(Node("CodeBlock", 1, block.content, block.language,
                                  <<>>, 0, 0))>>
                   \o [k \in 1..Len(highlighted) |-> Emit(highlighted[k])]
  /\ blockIndex' = blockIndex + 1
  /\ UNCHANGED <<text, pc, lastIndex, regexLastIndex, match, blocks,
                 processedLines, i, listItems, counter, out>>
  /\ UNCHANGED <<hooks, services>>

\* A text block: split into lines, classify them, start the line loop.
BeginTextBlock ==
  /\ pc = "render"
  /\ blockIndex < Len(blocks)
  /\ blocks[blockIndex + 1].type = "text"
  /\ processedLines' = processLists(Split(blocks[blockIndex + 1].content, <<NL>>))
  /\ i' = 0
  /\ listItems' = <<>>
  /\ work' = Append(work, Emit(Node("TextBlock", 1, <<>>, <<>>, <<>>, 0, 0)))
  /\ pc' = "lines"
  /\ UNCHANGED <<text, lastIndex, regexLastIndex, match, blocks, blockIndex,
                 counter, out>>
  /\ UNCHANGED <<hooks, services>>

\* The line the loop is at.
CurrentLine == processedLines[i + 1]

AtPlainLine ==
  /\ pc = "lines"
  /\ i < Len(processedLines)
  /\ ~CurrentLine.isListItem

\* The elements of one non-list line.
HeaderElements(line, lineIndex) ==
  LET m == HeaderMatch(Trim(line))
  IN  << Emit(Node("Header", 2, <<>>, <<>>, <<>>, lineIndex, Len(m.g1))),
         Parse(m.g2, 3) >>

BlockquoteElements(line, lineIndex) ==
  << Emit(Node("Blockquote", 2, <<>>, <<>>, <<>>, lineIndex, 0)),
     Parse(Trim(SubSeq(Trim(line), 2, Len(Trim(line)))), 3) >>

LineElements(line, lineIndex, nLines) ==
  << Emit(Node("Line", 2, <<>>, <<>>, <<>>, lineIndex, 0)), Parse(line, 3) >>
    \o (IF lineIndex < nLines - 1
          THEN <<Emit(Node("Newline", 3, <<NL>>, <<>>, <<>>, lineIndex, 0))>>
          ELSE <<>>)

RenderHeader ==
  /\ AtPlainLine
  /\ HeaderMatch(Trim(CurrentLine.line)).found
  /\ work' = work \o HeaderElements(CurrentLine.line, CurrentLine.index)
  /\ i' = i + 1
  /\ listItems' = <<>>
  /\ UNCHANGED <<text, pc, lastIndex, regexLastIndex, match, blocks, blockIndex,
                 processedLines, counter, out>>
  /\ UNCHANGED <<hooks, services>>

RenderBlockquote ==
  /\ AtPlainLine
  /\ ~HeaderMatch(Trim(CurrentLine.line)).found
  /\ IsBlockquote(Trim(CurrentLine.line))
  /\ work' = work \o BlockquoteElements(CurrentLine.line, CurrentLine.index)
  /\ i' = i + 1
  /\ listItems' = <<>>
  /\ UNCHANGED <<text, pc, lastIndex, regexLastIndex, match, blocks, blockIndex,
                 processedLines, counter, out>>
  /\ UNCHANGED <<hooks, services>>

RenderHorizontalRule ==
  /\ AtPlainLine
  /\ ~HeaderMatch(Trim(CurrentLine.line)).found
  /\ ~IsBlockquote(Trim(CurrentLine.line))
  /\ HrMatch(Trim(CurrentLine.line))
  /\ work' = Append(work, Emit(Node("HorizontalRule", 2, <<>>, <<>>, <<>>,
                                    CurrentLine.index, 0)))
  /\ i' = i + 1
  /\ listItems' = <<>>
  /\ UNCHANGED <<text, pc, lastIndex, regexLastIndex, match, blocks, blockIndex,
                 processedLines, counter, out>>
  /\ UNCHANGED <<hooks, services>>

RenderLine ==
  /\ AtPlainLine
  /\ ~HeaderMatch(Trim(CurrentLine.line)).found
  /\ ~IsBlockquote(Trim(CurrentLine.line))
  /\ ~HrMatch(Trim(CurrentLine.line))
  /\ work' = work \o LineElements(CurrentLine.line, CurrentLine.index,
                                  Len(processedLines))
  /\ i' = i + 1
  /\ listItems' = <<>>
  /\ UNCHANGED <<text, pc, lastIndex, regexLastIndex, match, blocks, blockIndex,
                 processedLines, counter, out>>
  /\ UNCHANGED <<hooks, services>>

\* A list item: collect the items of this list, render them recursively.
RenderList ==
  /\ pc = "lines"
  /\ i < Len(processedLines)
  /\ CurrentLine.isListItem
  /\ LET end == CollectEnd(processedLines, i)
         items == SubSeq(processedLines, i + 1, end)
     IN  /\ listItems' = items
         /\ i' = end
         /\ work' = work \o renderListItems(items, CurrentLine.level, 2)
  /\ UNCHANGED <<text, pc, lastIndex, regexLastIndex, match, blocks, blockIndex,
                 processedLines, counter, out>>
  /\ UNCHANGED <<hooks, services>>

\* The line loop ends: the text block's <View> is returned.
EndTextBlock ==
  /\ pc = "lines"
  /\ i >= Len(processedLines)
  /\ blockIndex' = blockIndex + 1
  /\ pc' = "render"
  /\ UNCHANGED <<text, lastIndex, regexLastIndex, match, blocks,
                 processedLines, i, listItems, work, counter, out>>
  /\ UNCHANGED <<hooks, services>>

\* All blocks are mapped: the component returns its tree.
RenderDone ==
  /\ pc = "render"
  /\ blockIndex >= Len(blocks)
  /\ pc' = "format"
  /\ UNCHANGED <<text, lastIndex, regexLastIndex, match, blocks, blockIndex,
                 processedLines, i, listItems, work, counter, out>>
  /\ UNCHANGED <<hooks, services>>

(***************************************************************************)
(* Rendering the pending elements.  A call of                              *)
(* processFormattingWithCounter is replaced by the calls and elements it   *)
(* makes, in the order in which it makes them: prefix, the span (and its   *)
(* inner text), suffix.                                                    *)
(***************************************************************************)
Pending(op) == pc = "format" /\ work # <<>> /\ Head(work).op = op

Unchanged9 ==
  UNCHANGED <<text, pc, lastIndex, regexLastIndex, match, blocks, blockIndex,
              processedLines, i, listItems>>

\* A plain element is written out.
EmitNode ==
  /\ Pending("emit")
  /\ out' = Append(out, Head(work).node)
  /\ work' = Tail(work)
  /\ UNCHANGED counter
  /\ Unchanged9
  /\ UNCHANGED <<hooks, services>>

\* <ParseInlineFormatting>: processFormattingWithCounter(text, 0, onImageLoad).
ParseInlineFormatting ==
  /\ Pending("parse")
  /\ counter' = 0
  /\ work' = <<Fmt(Head(work).s, Head(work).depth)>> \o Tail(work)
  /\ UNCHANGED out
  /\ Unchanged9
  /\ UNCHANGED <<hooks, services>>

\* counter++ after a wrapping span has been built.
CloseSpan ==
  /\ Pending("close")
  /\ counter' = counter + 1
  /\ work' = Tail(work)
  /\ UNCHANGED out
  /\ Unchanged9
  /\ UNCHANGED <<hooks, services>>

\* if (!text) return { result: [], counter }
FormatEmpty ==
  /\ Pending("fmt")
  /\ Head(work).s = <<>>
  /\ work' = Tail(work)
  /\ UNCHANGED <<counter, out>>
  /\ Unchanged9
  /\ UNCHANGED <<hooks, services>>

\* Branches that fall through to the plain text without looking for a link.
ConstructWithoutLink(t) ==
  IF ImageMatch(t).found THEN "Image"
  ELSE IF BoldMatch(t).found THEN "Bold"
  ELSE IF ItalicMatch(t).found THEN "Italic"
  ELSE IF StrikethroughMatch(t).found THEN "Strikethrough"
  ELSE IF InlineCodeMatch(t).found THEN "InlineCode"
  ELSE "Plain"

\* An order of the branches that looks for inline code before bold.
ConstructCodeBeforeBold(t) ==
  IF ImageMatch(t).found THEN "Image"
  ELSE IF InlineCodeMatch(t).found THEN "InlineCode"
  ELSE IF BoldMatch(t).found THEN "Bold"
  ELSE IF ItalicMatch(t).found THEN "Italic"
  ELSE IF StrikethroughMatch(t).found THEN "Strikethrough"
  ELSE IF LinkMatch(t).found THEN "Link"
  ELSE "Plain"

\* The construct processFormattingWithCounter handles for a non-empty text:
\* the first of the six whose pattern matches, else "Plain".
Construct(t) ==
  IF ImageMatch(t).found THEN "Image"
  ELSE IF BoldMatch(t).found THEN "Bold"
  ELSE IF ItalicMatch(t).found THEN "Italic"
  ELSE IF StrikethroughMatch(t).found THEN "Strikethrough"
  ELSE IF InlineCodeMatch(t).found THEN "InlineCode"
  ELSE IF LinkMatch(t).found THEN "Link"
  ELSE "Plain"

\* The calls and elements of a branch that wraps its recursively formatted
\* inner text (bold, italic, strikethrough).
WrapExpansion(kind, t, m, depth) ==
  << Fmt(Prefix(t, m.full), depth),
     Emit(Node(kind, depth, <<>>, <<>>, <<>>, 0, 0)),
     Fmt(m.g1, depth + 1),
     Close,
     Fmt(Suffix(t, m.full), depth) >>

\* The calls and elements of a branch whose span is a literal leaf.
LeafExpansion(node, t, m, depth) ==
  << Fmt(Prefix(t, m.full), depth),
     Emit(node),
     Close,
     Fmt(Suffix(t, m.full), depth) >>

FormatStep(kind, expansion) ==
  /\ Pending("fmt")
  /\ Head(work).s # <<>>
  /\ Construct(Head(work).s) = kind
  /\ work' = expansion \o Tail(work)
  /\ UNCHANGED <<counter, out>>
  /\ Unchanged9
  /\ UNCHANGED <<hooks, services>>

FormatImage ==
  LET t == Head(work).s
      d == Head(work).depth
      m == ImageMatch(t)
  IN  FormatStep("Image",
                 LeafExpansion(Node("Image", d, m.g1, m.g2, m.g3, 0, 0), t, m, d))

FormatBold ==
  LET t == Head(work).s
  IN  FormatStep("Bold", WrapExpansion("Bold", t, BoldMatch(t), Head(work).depth))

FormatItalic ==
  LET t == Head(work).s
  IN  FormatStep("Italic",
                 WrapExpansion("Italic", t, ItalicMatch(t), Head(work).depth))

FormatStrikethrough ==
  LET t == Head(work).s
  IN  FormatStep("Strikethrough",
                 WrapExpansion("Strikethrough", t, StrikethroughMatch(t),
                               Head(work).depth))

FormatInlineCode ==
  LET t == Head(work).s
      d == Head(work).depth
      m == InlineCodeMatch(t)
  IN  FormatStep("InlineCode",
                 LeafExpansion(Node("InlineCode", d, m.g1, <<>>, <<>>, 0, 0),
                               t, m, d))

FormatLink ==
  LET t == Head(work).s
      d == Head(work).depth
      m == LinkMatch(t)
  IN  FormatStep("Link",
                 LeafExpansion(Node("Link", d, m.g1, m.g2, <<>>, 0, 0), t, m, d))

\* No formatting is found: the text as is.
FormatPlain ==
  /\ Pending("fmt")
  /\ Head(work).s # <<>>
  /\ Construct(Head(work).s) = "Plain"
  /\ out' = Append(out, Node("Plain", Head(work).depth, Head(work).s,
                             <<>>, <<>>, 0, 0))
  /\ counter' = counter + 1
  /\ work' = Tail(work)
  /\ Unchanged9
  /\ UNCHANGED <<hooks, services>>

\* Nothing is left to render.
Finish ==
  /\ pc = "format"
  /\ work = <<>>
  /\ pc' = "done"
  /\ UNCHANGED <<text, lastIndex, regexLastIndex, match, blocks, blockIndex,
                 processedLines, i, listItems, work, counter, out>>
  /\ UNCHANGED <<hooks, services>>

Next ==
  \/ ReturnNull
  \/ SplitMatch
  \/ SplitEnd
  \/ RenderCodeBlock
  \/ BeginTextBlock
  \/ RenderHeader
  \/ RenderBlockquote
  \/ RenderHorizontalRule
  \/ RenderLine
  \/ RenderList
  \/ EndTextBlock
  \/ RenderDone
  \/ EmitNode
  \/ ParseInlineFormatting
  \/ CloseSpan
  \/ FormatEmpty
  \/ FormatImage
  \/ FormatBold
  \/ FormatItalic
  \/ FormatStrikethrough
  \/ FormatInlineCode
  \/ FormatLink
  \/ FormatPlain
  \/ Finish

Spec == Init /\ [][Next]_vars

(***************************************************************************)
(* The render of a text that is one fenced code block in a highlighted     *)
(* language: the block splitter, the code block and its CodeHighlighter.   *)
(***************************************************************************)
HighlightInit ==
  /\ text \in CodeTexts
  /\ pc = "split"
  /\ lastIndex = 0
  /\ regexLastIndex = 0
  /\ match = NoMatch
  /\ blocks = <<>>
  /\ blockIndex = 0
  /\ processedLines = <<>>
  /\ i = 0
  /\ listItems = <<>>
  /\ work = <<>>
  /\ counter = 0
  /\ out = <<>>
  /\ HooksInit(0)
  /\ ServicesInit

HighlightNext ==
  \/ SplitMatch
  \/ SplitEnd
  \/ RenderCodeBlock
  \/ RenderDone
  \/ EmitNode
  \/ Finish

HighlightSpec == HighlightInit /\ [][HighlightNext]_vars

(***************************************************************************)
(* The component across renders: its state, refs and effects, the events   *)
(* of the host (layout, image loads, new props) and the timer.  A commit   *)
(* is one render with the effects that follow it; what the render returns  *)
(* is left to Spec.                                                        *)
(***************************************************************************)
\* /!\[.*?\]\(.*?\)/ tried with "![" at position s: where the match ends,
\* 0 when there is none.
CountedImageEnd(t, s) ==
  LET mids == {m \in (s + 2)..Len(t) :
                 /\ StartsAt(t, <<"]", "(">>, m)
                 /\ DotToEnd(SubSeq(t, 1, m - 1), s + 2)
                 /\ \E e \in (m + 2)..Len(t) :
                       t[e] = ")" /\ DotToEnd(SubSeq(t, 1, e - 1), m + 2)}
  IN  IF ~StartsAt(t, <<"!", "[">>, s) \/ mids = {} THEN 0
      ELSE Min({e \in (Min(mids) + 2)..Len(t) : t[e] = ")"})

\* text.match(/!\[.*?\]\(.*?\)/g): the number of matches from position
\* from on (0 for null).
RECURSIVE CountedImagesFrom(_, _)
CountedImagesFrom(t, from) ==
  LET starts == {p \in from..Len(t) : CountedImageEnd(t, p) # 0}
  IN  IF starts = {} THEN 0
      ELSE 1 + CountedImagesFrom(t, CountedImageEnd(t, Min(starts)) + 1)

CountedImages(t) == CountedImagesFrom(t, 1)

\* The <Image> elements processFormattingWithCounter builds for a line.
\* The match of the first construct that applies to t, in the order of the
\* branches.
FirstMatch(t) ==
  IF ImageMatch(t).found THEN ImageMatch(t)
  ELSE IF BoldMatch(t).found THEN BoldMatch(t)
  ELSE IF ItalicMatch(t).found THEN ItalicMatch(t)
  ELSE IF StrikethroughMatch(t).found THEN StrikethroughMatch(t)
  ELSE IF InlineCodeMatch(t).found THEN InlineCodeMatch(t)
  ELSE LinkMatch(t)

RECURSIVE ImagesIn(_)
ImagesOfMatch(t, m, image, wraps) ==
  ImagesIn(Prefix(t, m.full)) + (IF image THEN 1 ELSE 0)
    + (IF wraps THEN ImagesIn(m.g1) ELSE 0) + ImagesIn(Suffix(t, m.full))

ImagesIn(t) ==
  IF t = <<>> \/ ~FirstMatch(t).found THEN 0
  ELSE ImagesOfMatch(t, FirstMatch(t), ImageMatch(t).found,
                     ~ImageMatch(t).found
                       /\ (BoldMatch(t).found \/ ItalicMatch(t).found
                             \/ StrikethroughMatch(t).found))

OneImage == <<"!", "[", "a", "]", "(", "u", ")">>

\* The texts and the callbacks the host passes.
NotifyTexts == {<<"a">>, OneImage, OneImage \o <<SP>> \o OneImage}

Callbacks == {0, 1, 2}

NotifyInit ==
  /\ text \in NotifyTexts
  /\ pc = "split"
  /\ lastIndex = 0
  /\ regexLastIndex = 0
  /\ match = NoMatch
  /\ blocks = <<>>
  /\ blockIndex = 0
  /\ processedLines = <<>>
  /\ i = 0
  /\ listItems = <<>>
  /\ work = <<>>
  /\ counter = 0
  /\ out = <<>>
  /\ \E cb \in Callbacks : HooksInit(cb)
  /\ ServicesInit

\* [imagesLoaded, totalImages, contentRendered, onContentRendered]
Deps == <<imagesLoaded, totalImages, contentRendered, onContentRendered>>

\* A notify effect that does not look at hasNotifiedRef.
SkipsNotifyWithoutRef(callback, hasNotified) == callback = 0

\* if (!onContentRendered || hasNotifiedRef.current) return
SkipsNotify(callback, hasNotified) == callback = 0 \/ hasNotified

\* (imagesLoaded === totalImages || totalImages === 0) && contentRendered
NotifyCondition(loaded, total, rendered) ==
  (loaded = total \/ total = 0) /\ rendered

\* One render and its effects: the clean-ups of the effects whose
\* dependencies changed, then the effects, in the order of their
\* declaration.  The state set by an effect shows in the next render.
RunEffects(first) ==
  LET textChanged == ~first /\ text # textDeps
      notifyChanged == first \/ Deps # notifyDeps
      cleaned == IF textChanged /\ countCleanup THEN FALSE ELSE hasNotifiedRef
      cleared == IF notifyChanged THEN NoTimer ELSE timer
      counts == (first \/ textChanged) /\ textRef # text
      reset == IF counts THEN FALSE ELSE cleaned
      notifies == /\ notifyChanged
                  /\ ~SkipsNotify(onContentRendered, reset)
                  /\ NotifyCondition(imagesLoaded, totalImages, contentRendered)
  IN  /\ totalImages' = IF counts THEN CountedImages(text) ELSE totalImages
      /\ imagesLoaded' = IF counts THEN 0 ELSE imagesLoaded
      /\ contentRendered' = IF counts THEN FALSE ELSE contentRendered
      /\ textRef' = IF counts THEN text ELSE textRef
      /\ countCleanup' = IF first \/ textChanged THEN counts ELSE countCleanup
      /\ hasNotifiedRef' = IF notifies THEN TRUE ELSE reset
      /\ timer' = IF notifies
                    THEN [pending |-> TRUE, callback |-> onContentRendered,
                          epoch |-> IF textChanged THEN epoch + 1 ELSE epoch]
                    ELSE cleared
      /\ textDeps' = text
      /\ notifyDeps' = Deps
      /\ loads' = IF textChanged THEN 0 ELSE loads
      /\ epoch' = IF textChanged THEN epoch + 1 ELSE epoch
      /\ UNCHANGED <<text, onContentRendered, calls, renderVars,
                   services>>

\* The first render.
Mount ==
  /\ ~mounted
  /\ mounted' = TRUE
  /\ RunEffects(TRUE)

\* A render after the props or the state changed.
Commit ==
  /\ mounted
  /\ text # textDeps \/ Deps # notifyDeps
  /\ UNCHANGED mounted
  /\ RunEffects(FALSE)

\* handleLayout, as created by the last render.
Layout ==
  /\ mounted
  /\ ~notifyDeps[3]
  /\ contentRendered' = TRUE
  /\ UNCHANGED <<text, renderVars, services,
                 onContentRendered, imagesLoaded,
                 totalImages, hasNotifiedRef, textRef, mounted, textDeps,
                 countCleanup, notifyDeps, timer, loads, epoch, calls>>

\* handleImageLoaded, called by the onLoad of an image on screen.
ImageLoaded ==
  /\ mounted
  /\ loads < ImagesIn(textDeps)
  /\ imagesLoaded' = imagesLoaded + 1
  /\ loads' = loads + 1
  /\ UNCHANGED <<text, renderVars, services,
                 onContentRendered, totalImages,
                 contentRendered, hasNotifiedRef, textRef, mounted, textDeps,
                 countCleanup, notifyDeps, timer, epoch, calls>>

\* The host renders the component with another callback, or with none.
NewCallback ==
  /\ mounted
  /\ onContentRendered' \in Callbacks \ {onContentRendered}
  /\ UNCHANGED <<text, renderVars, services,
                 imagesLoaded, totalImages, contentRendered,
                 hasNotifiedRef, textRef, mounted, textDeps, countCleanup,
                 notifyDeps, timer, loads, epoch, calls>>

\* The host renders the component with another text.
NewText ==
  /\ mounted
  /\ epoch < MaxTextChanges
  /\ text' \in NotifyTexts \ {text}
  /\ UNCHANGED <<renderVars, hooks, services>>

\* The 300 ms have passed: onContentRendered().
TimerFires ==
  /\ timer.pending
  /\ calls' = Append(calls, [callback |-> timer.callback,
                             epoch |-> timer.epoch,
                             during |-> epoch,
                             loaded |-> loads,
                             images |-> ImagesIn(textDeps)])
  /\ timer' = NoTimer
  /\ UNCHANGED <<text, renderVars, services,
                 onContentRendered, imagesLoaded,
                 totalImages, contentRendered, hasNotifiedRef, textRef,
                 mounted, textDeps, countCleanup, notifyDeps, loads, epoch>>

NotifyNext ==
  \/ Mount
  \/ Commit
  \/ Layout
  \/ ImageLoaded
  \/ NewCallback
  \/ NewText
  \/ TimerFires

NotifySpec == NotifyInit /\ [][NotifyNext]_vars

(***************************************************************************)
(* MessageBubble: the measured layout of a message and the notification    *)
(* of the host, across renders of a bubble that is reused for other        *)
(* messages.                                                               *)
(***************************************************************************)
\* The messages the host shows in the bubble; a message keeps its role.
Messages ==
  {[id |-> 1, role |-> "assistant"], [id |-> 2, role |-> "assistant"],
   [id |-> 3, role |-> "user"]}

\* The heights the layout events report.
Heights == {100, 400}

\* A component of the application that is not running.
ComponentIdle ==
  /\ text = <<"a">>
  /\ pc = "split"
  /\ lastIndex = 0
  /\ regexLastIndex = 0
  /\ match = NoMatch
  /\ blocks = <<>>
  /\ blockIndex = 0
  /\ processedLines = <<>>
  /\ i = 0
  /\ listItems = <<>>
  /\ work = <<>>
  /\ counter = 0
  /\ out = <<>>
  /\ HooksInit(0)

BubbleInit ==
  /\ ComponentIdle
  /\ \E m \in Messages, cb \in {0, 1} : bubble = NewBubble(m, cb)
  /\ api = NewApi
  /\ emitter = NewEmitter
  /\ storage = NewStorage

\* What a render of the bubble closes over: the dependencies of handleLayout
\* and what decides whether the expand button is shown.
Closure(b) ==
  [id |-> b.message.id, isUser |-> b.message.role = "user",
   initialMeasurementComplete |-> b.initialMeasurementComplete,
   hasOverflow |-> b.hasOverflow,
   onContentRendered |-> b.onContentRendered]

\* The first render; the reset effect is to run after it.
BubbleMount ==
  /\ ~bubble.mounted
  /\ bubble' = [bubble EXCEPT !.mounted = TRUE,
                              !.rendered = Closure(bubble),
                              !.effectPending = TRUE,
                              !.effectDeps = bubble.message.id]
  /\ UNCHANGED <<component, api, emitter, storage>>

\* A render after the props or the state changed.  The effects of the
\* render before it have run; the reset effect is to run again when
\* message.id changed.
BubbleRender ==
  /\ bubble.mounted
  /\ ~bubble.effectPending
  /\ Closure(bubble) # bubble.rendered
  /\ bubble' = [bubble EXCEPT
       !.rendered = Closure(bubble),
       !.effectPending = bubble.message.id # bubble.effectDeps,
       !.effectDeps = bubble.message.id,
       !.shown = IF bubble.message.id # bubble.rendered.id
                   THEN bubble.shown + 1 ELSE bubble.shown]
  /\ UNCHANGED <<component, api, emitter, storage>>

\* useEffect(..., [message.id]): reset state when message changes.
BubbleResetEffect ==
  /\ bubble.effectPending
  /\ bubble' =
       IF bubble.messageIdRef # bubble.rendered.id
         THEN [bubble EXCEPT !.effectPending = FALSE,
                             !.initialMeasurementComplete = FALSE,
                             !.contentHeight = 0,
                             !.hasOverflow = FALSE,
                             !.expanded = FALSE,
                             !.hasNotifiedRef = FALSE,
                             !.messageIdRef = bubble.rendered.id]
         ELSE [bubble EXCEPT !.effectPending = FALSE]
  /\ UNCHANGED <<component, api, emitter, storage>>

\* if (!initialMeasurementComplete || messageIdRef.current !== message.id)
Measures(b) ==
  ~b.rendered.initialMeasurementComplete \/ b.messageIdRef # b.rendered.id

\* if (onContentRendered && !isUser && !hasNotifiedRef.current)
Notifies(b) ==
  b.rendered.onContentRendered # 0 /\ ~b.rendered.isUser /\ ~b.hasNotifiedRef

\* handleLayout of the last render, for a layout event that is measured.
\* layouts and calls keep what the host has seen.
BubbleLayout ==
  /\ bubble.mounted
  /\ Measures(bubble)
  /\ \E height \in Heights :
       bubble' = [bubble EXCEPT
         !.contentHeight = height,
         !.hasOverflow = height > MAX_BUBBLE_HEIGHT,
         !.initialMeasurementComplete = TRUE,
         !.messageIdRef = bubble.rendered.id,
         !.hasNotifiedRef = bubble.hasNotifiedRef \/ Notifies(bubble),
         !.layouts = bubble.layouts \cup
            {[id |-> bubble.rendered.id, shown |-> bubble.shown,
              isUser |-> bubble.rendered.isUser,
              onContentRendered |-> bubble.rendered.onContentRendered,
              first |-> \A l \in bubble.layouts : l.shown # bubble.shown,
              notified |-> Notifies(bubble)]},
         !.calls = IF Notifies(bubble)
                     THEN Append(bubble.calls,
                                 [id |-> bubble.rendered.id,
                                  shown |-> bubble.shown,
                                  isUser |-> bubble.rendered.isUser])
                     ELSE bubble.calls]
  /\ UNCHANGED <<component, api, emitter, storage>>

\* toggleExpanded, by the button that is shown when the content overflows.
BubbleToggleExpanded ==
  /\ bubble.mounted
  /\ bubble.rendered.hasOverflow
  /\ bubble' = [bubble EXCEPT !.expanded = ~bubble.expanded]
  /\ UNCHANGED <<component, api, emitter, storage>>

\* The host reuses the bubble for another message.
BubbleNewMessage ==
  /\ bubble.mounted
  /\ bubble.shown < MaxMessageChanges
  /\ \E m \in Messages \ {bubble.message} :
       bubble' = [bubble EXCEPT !.message = m]
  /\ UNCHANGED <<component, api, emitter, storage>>

BubbleNext ==
  \/ BubbleMount
  \/ BubbleRender
  \/ BubbleResetEffect
  \/ BubbleLayout
  \/ BubbleToggleExpanded
  \/ BubbleNewMessage

BubbleSpec == BubbleInit /\ [][BubbleNext]_vars

(***************************************************************************)
(* services/api.ts and services/settings.ts: the cached API key.  The      *)
(* calls run on one thread and give way to each other where they await.    *)
(***************************************************************************)
\* The keys the user saves.
Keys == {"sk-1", "sk-2"}

\* !value, for a string or null
Not(value) == value \in {Null, ""}

\* getApiKey: return apiKey || ''
getApiKey(item) == IF Not(item) THEN "" ELSE item

ApiInit ==
  /\ ComponentIdle
  /\ ServicesInit

\* saveApiKey(apiKey)
SaveApiKey ==
  /\ \E key \in Keys :
       /\ key # api.item
       /\ api' = [api EXCEPT !.item = key, !.keyStored = TRUE]
  /\ UNCHANGED <<component, bubble, emitter, storage>>

\* clearApiKey()
ClearApiKey ==
  /\ api.item # Null
  /\ api' = [api EXCEPT !.item = Null]
  /\ UNCHANGED <<component, bubble, emitter, storage>>

\* initializeApiKey, up to await getApiKey().
InitializeApiKey(t) ==
  /\ api.calls[t].pc = "idle"
  /\ api' = [api EXCEPT !.calls[t] =
       [op |-> "initializeApiKey",
        pc |-> IF Not(api.cachedApiKey) THEN "reading" ELSE "done",
        storedKey |-> Null]]
  /\ UNCHANGED <<component, bubble, emitter, storage>>

\* refreshApiKey as far as it runs when it is called: to its return, through
\* the finally block, while isRefreshing is set, and else to
\* await getApiKey().  returned is where the caller goes on after a return.
BeginRefresh(t, op, returned) ==
  IF api.isRefreshing
    THEN [api EXCEPT !.isRefreshing = FALSE,
                     !.calls[t] = [op |-> op, pc |-> returned,
                                   storedKey |-> Null]]
    ELSE [api EXCEPT !.isRefreshing = TRUE,
                     !.calls[t] = [op |-> op, pc |-> "reading",
                                   storedKey |-> Null]]

\* refreshApiKey()
RefreshApiKey(t) ==
  /\ api.calls[t].pc = "idle"
  /\ api' = BeginRefresh(t, "refreshApiKey", "done")
  /\ UNCHANGED <<component, bubble, emitter, storage>>

\* sendMessage, up to the first await of checkApiKey:
\* if (!cachedApiKey) await refreshApiKey()
SendMessage(t) ==
  /\ api.calls[t].pc = "idle"
  /\ api' = IF Not(api.cachedApiKey)
              THEN BeginRefresh(t, "sendMessage", "checking")
              ELSE [api EXCEPT !.calls[t] =
                      [op |-> "sendMessage", pc |-> "checking",
                       storedKey |-> Null]]
  /\ UNCHANGED <<component, bubble, emitter, storage>>

\* AsyncStorage.getItem answers a call that waits in getApiKey.
GetApiKey(t) ==
  /\ api.calls[t].pc = "reading"
  /\ api' = [api EXCEPT !.calls[t].pc = "read",
                        !.calls[t].storedKey = getApiKey(api.item)]
  /\ UNCHANGED <<component, bubble, emitter, storage>>

\* After await getApiKey(): cachedApiKey = storedKey, and for refreshApiKey
\* the finally block.
AfterGetApiKey(t) ==
  /\ api.calls[t].pc = "read"
  /\ api' = [api EXCEPT
       !.cachedApiKey = api.calls[t].storedKey,
       !.isRefreshing = IF api.calls[t].op = "initializeApiKey"
                          THEN api.isRefreshing ELSE FALSE,
       !.calls[t].pc = IF api.calls[t].op = "sendMessage"
                         THEN "checking" ELSE "done"]
  /\ UNCHANGED <<component, bubble, emitter, storage>>

\* checkApiKey: return cachedApiKey !== ''
checkApiKey(cachedApiKey) == cachedApiKey # ""

\* sendMessage after await checkApiKey(): it throws, or it posts the
\* request with getApiClient's key, cachedApiKey || OPENROUTER_API_KEY.
AfterCheckApiKey(t) ==
  /\ api.calls[t].pc = "checking"
  /\ api' = IF checkApiKey(api.cachedApiKey)
              THEN [api EXCEPT
                      !.calls[t].pc = "done",
                      !.requests = Append(api.requests,
                         [call |-> t,
                          key |-> IF Not(api.cachedApiKey)
                                    THEN OPENROUTER_API_KEY
                                    ELSE api.cachedApiKey])]
              ELSE [api EXCEPT !.calls[t].pc = "done",
                               !.errors = api.errors \cup {t}]
  /\ UNCHANGED <<component, bubble, emitter, storage>>

ApiNext ==
  \/ SaveApiKey
  \/ ClearApiKey
  \/ \E t \in 1..MaxCalls :
       \/ InitializeApiKey(t)
       \/ RefreshApiKey(t)
       \/ SendMessage(t)
       \/ GetApiKey(t)
       \/ AfterGetApiKey(t)
       \/ AfterCheckApiKey(t)

ApiSpec == ApiInit /\ [][ApiNext]_vars

(***************************************************************************)
(* utils/events.ts: EventEmitter.                                          *)
(***************************************************************************)
\* The callbacks that are registered, by what they do when they are called:
\* return, throw, call their own unsubscribe function, call the unsubscribe
\* function of the callback Returns, register the callback Returns.
Returns == "returns"

Throws == "throws"

UnsubscribesItself == "unsubscribes itself"

UnsubscribesOther == "unsubscribes other"

Registers == "registers"

Listeners == {Returns, Throws, UnsubscribesItself, UnsubscribesOther,
              Registers}

EmitterInit ==
  /\ ComponentIdle
  /\ ServicesInit

\* on: this.events[event].push(callback), and the function returned.
Pushed(em, event, callback) ==
  [em EXCEPT
     !.events[event] = Append(@, [callback |-> callback,
                                  reg |-> em.registered + 1]),
     !.registered = @ + 1,
     !.handles = Append(@, [event |-> event, callback |-> callback])]

\* The unsubscribe function:
\* this.events[event] = this.events[event].filter(cb => cb !== callback)
Filtered(em, event, callback) ==
  [em EXCEPT !.events[event] = SelectSeq(@, LAMBDA x : x.callback # callback)]

\* callback(...args) for the listener x of the event: what it does to the
\* emitter, and the note that it was called.
Called(em, event, x) ==
  LET noted == [em EXCEPT !.invoked =
                  Append(@, [reg |-> x.reg, callback |-> x.callback])]
  IN  CASE x.callback = UnsubscribesItself ->
             Filtered(noted, event, UnsubscribesItself)
        [] x.callback = UnsubscribesOther -> Filtered(noted, event, Returns)
        [] x.callback = Registers -> Pushed(noted, event, Returns)
        [] OTHER -> noted

\* A forEach that is left by the first exception.
RECURSIVE ForEachUntilThrow(_, _, _, _)
ForEachUntilThrow(callbacks, k, event, em) ==
  IF k > Len(callbacks) THEN em
  ELSE IF callbacks[k].callback = Throws
    THEN [Called(em, event, callbacks[k]) EXCEPT !.last.threw = TRUE]
    ELSE ForEachUntilThrow(callbacks, k + 1, event,
                           Called(em, event, callbacks[k]))

\* callbacks.forEach(callback => { try { callback(...args) } catch ... }),
\* from the k-th element on.
RECURSIVE ForEach(_, _, _, _)
ForEach(callbacks, k, event, em) ==
  IF k > Len(callbacks) THEN em
  ELSE ForEach(callbacks, k + 1, event, Called(em, event, callbacks[k]))

\* on(event, callback)
On ==
  /\ emitter.registered < MaxListeners
  /\ \E event \in Events, callback \in Listeners :
       emitter' = [Pushed(emitter, event, callback) EXCEPT
                     !.last = [op |-> "on", event |-> event,
                               reg |-> emitter.registered + 1,
                               before |-> emitter.events[event],
                               threw |-> FALSE]]
  /\ UNCHANGED <<component, bubble, api, storage>>

\* A call of the unsubscribe function that the reg-th call of on returned.
Unsubscribe ==
  /\ \E reg \in DOMAIN emitter.handles :
       LET h == emitter.handles[reg]
       IN  emitter' = [Filtered(emitter, h.event, h.callback) EXCEPT
                         !.last = [op |-> "unsubscribe", event |-> h.event,
                                   reg |-> reg,
                                   before |-> emitter.events[h.event],
                                   threw |-> FALSE]]
  /\ UNCHANGED <<component, bubble, api, storage>>

\* emit(event): const callbacks = this.events[event] || [], then forEach.
\* The listeners may register as many callbacks as MaxListeners leaves.
EmitEvent ==
  /\ \E event \in Events :
       LET callbacks == emitter.events[event]
           begun == [emitter EXCEPT
                       !.invoked = <<>>,
                       !.last = [op |-> "emit", event |-> event, reg |-> 0,
                                 before |-> callbacks, threw |-> FALSE]]
       IN  /\ emitter.registered
                + Len(SelectSeq(callbacks, LAMBDA x : x.callback = Registers))
                <= MaxListeners
           /\ emitter' = ForEach(callbacks, 1, event, begun)
  /\ UNCHANGED <<component, bubble, api, storage>>

EmitterNext ==
  \/ On
  \/ Unsubscribe
  \/ EmitEvent

EmitterSpec == EmitterInit /\ [][EmitterNext]_vars

(***************************************************************************)
(* services/storage.ts: the chats and the rooms.  Each call runs to its    *)
(* end before the next one starts, and AsyncStorage answers every call.    *)
(***************************************************************************)
\* The times a caller can give: none, or a time that has passed.
TimesUntil(now) == {Undefined} \cup 1..now

\* The chats and rooms the callers save.
ChatsToSave(now) ==
  [id : ChatIds, lastMessage : {"x", "y"}, lastMessageTime : TimesUntil(now)]

RoomsToSave(now) ==
  [id : RoomIds, lastMessage : {"x"}, messages : {<<>>, <<"x">>},
   lastMessageTime : TimesUntil(now)]

StorageInit ==
  /\ ComponentIdle
  /\ ServicesInit

\* A findIndex that finds nothing.
FindIndexNever(list, id) == -1

\* list.findIndex(c => c.id === id)
FindIndex(list, id) ==
  LET found == {k \in DOMAIN list : list[k].id = id}
  IN  IF found = {} THEN -1 ELSE Min(found) - 1

\* lastMessageTime || 0
OrZero(time) == IF time = Undefined THEN 0 ELSE time

\* One step of the sort: x goes after the elements that are not older.
InsertByTime(sorted, x) ==
  LET older == {k \in DOMAIN sorted :
                  OrZero(sorted[k].lastMessageTime) < OrZero(x.lastMessageTime)}
      at == IF older = {} THEN Len(sorted) + 1 ELSE Min(older)
  IN  SubSeq(sorted, 1, at - 1) \o <<x>> \o SubSeq(sorted, at, Len(sorted))

\* list.sort((a, b) => (b.lastMessageTime || 0) - (a.lastMessageTime || 0)),
\* a stable sort.
RECURSIVE SortByTime(_)
SortByTime(list) ==
  IF list = <<>> THEN <<>>
  ELSE InsertByTime(SortByTime(SubSeq(list, 1, Len(list) - 1)),
                    list[Len(list)])

\* if (index >= 0) list[index] = item; else list.push(item)
Upsert(list, item) ==
  LET index == FindIndex(list, item.id)
  IN  IF index >= 0 THEN [list EXCEPT ![index + 1] = item]
      ELSE Append(list, item)

\* list.filter(x => x.id !== id)
Without(list, id) == SelectSeq(list, LAMBDA x : x.id # id)

\* saveChat(chat)
SaveChat ==
  /\ \E chat \in ChatsToSave(storage.now) :
       LET chats == SortByTime(Upsert(storage.chats, chat))
       IN  storage' = [storage EXCEPT
             !.chats = chats,
             !.emitted = <<"CHATS_UPDATED", chats>>,
             !.lastSaved[chat.id] = <<chat>>]
  /\ UNCHANGED <<component, bubble, api, emitter>>

\* deleteChat(chatId)
DeleteChat ==
  /\ \E chatId \in ChatIds :
       LET filteredChats == Without(storage.chats, chatId)
       IN  storage' = [storage EXCEPT
             !.chats = filteredChats,
             !.emitted = <<"CHATS_UPDATED", filteredChats>>,
             !.lastSaved[chatId] = <<>>]
  /\ UNCHANGED <<component, bubble, api, emitter>>

\* saveRoom(room)
SaveRoom ==
  /\ \E room \in RoomsToSave(storage.now) :
       LET rooms == SortByTime(Upsert(storage.rooms, room))
       IN  storage' = [storage EXCEPT
             !.rooms = rooms,
             !.emitted = <<"ROOMS_UPDATED", rooms>>]
  /\ UNCHANGED <<component, bubble, api, emitter>>

\* clearRoomChat(roomId), for a room that is stored: the room is kept with
\* messages: [], lastMessage: '', lastMessageTime: Date.now().
ClearRoomChat ==
  /\ \E roomId \in RoomIds :
       LET roomIndex == FindIndex(storage.rooms, roomId)
           rooms == [storage.rooms EXCEPT ![roomIndex + 1] =
                       [@ EXCEPT !.messages = <<>>,
                                 !.lastMessage = "",
                                 !.lastMessageTime = storage.now]]
       IN  /\ roomIndex > -1
           /\ storage' = [storage EXCEPT
                !.rooms = rooms,
                !.emitted = <<"ROOMS_UPDATED", rooms>>]
  /\ UNCHANGED <<component, bubble, api, emitter>>

\* deleteRoom(roomId)
DeleteRoom ==
  /\ \E roomId \in RoomIds :
       LET updatedRooms == Without(storage.rooms, roomId)
       IN  storage' = [storage EXCEPT
             !.rooms = updatedRooms,
             !.emitted = <<"ROOMS_UPDATED", updatedRooms>>]
  /\ UNCHANGED <<component, bubble, api, emitter>>

\* Time passes.
Tick ==
  /\ storage.now < MaxTime
  /\ storage' = [storage EXCEPT !.now = @ + 1]
  /\ UNCHANGED <<component, bubble, api, emitter>>

StorageNext ==
  \/ SaveChat
  \/ DeleteChat
  \/ SaveRoom
  \/ ClearRoomChat
  \/ DeleteRoom
  \/ Tick

StorageSpec == StorageInit /\ [][StorageNext]_vars

(***************************************************************************)
(* Properties.                                                             *)
(***************************************************************************)
\* The split loop has ended.
SplitOver == pc \in {"render", "lines", "format", "done"}

CodeBlocks == {b \in 1..Len(blocks) : blocks[b].type = "codeBlock"}

\* The rendered nodes of the last text block (the block processedLines
\* belongs to once the render is over).
LastTextStart ==
  LET S == {k \in 1..Len(out) : out[k].kind = "TextBlock"}
  IN  IF S = {} THEN 0 ELSE CHOOSE k \in S : \A j \in S : j <= k

LastTextNodes ==
  IF LastTextStart = 0 THEN {}
  ELSE {k \in (LastTextStart + 1)..Len(out) :
          \A j \in LastTextStart..k : out[j].kind # "CodeBlock"}

\* The rendered list nodes of line n (1-based) of the last text block.
ItemNodes(n) ==
  {k \in LastTextNodes : out[k].kind = "ListItem" /\ out[k].line = n - 1}

SpanKinds == {"Bold", "Italic", "Strikethrough"}

NodesOfKind(kind) == {k \in 1..Len(out) : out[k].kind = kind}

\* The positions of character c in t.
Positions(t, c) == {q \in 1..Len(t) : t[q] = c}

(***************************************************************************)
(* C1.  The pipeline terminates for every input: every iteration of the    *)
(* fence-splitting loop consumes a non-empty match, so the position it     *)
(* scans from strictly grows; and every call the inline formatter makes on *)
(* a prefix, an inner text or a suffix receives a string strictly shorter  *)
(* than the string of the call that makes it.                              *)
(***************************************************************************)
C1_Terminates ==
     [][ /\ (pc = "split" /\ match'.found) =>
              /\ Len(match'.full) > 0
              /\ regexLastIndex' = match'.index + Len(match'.full)
              /\ regexLastIndex' > regexLastIndex
              /\ lastIndex' > lastIndex
         /\ Pending("fmt") =>
              \A k \in 1..(Len(work') - Len(work) + 1) :
                 work'[k].op = "fmt" => Len(work'[k].s) < Len(Head(work).s)
       ]_vars

\* A finished render that went twice round the fence loop and formatted a
\* span nested in a span.
C1_Witness ==
  /\ pc = "done"
  /\ Cardinality(CodeBlocks) >= 2
  /\ \E k \in NodesOfKind("Italic") :
        \E j \in NodesOfKind("Bold") : j < k /\ out[k].depth = out[j].depth + 1

(***************************************************************************)
(* C2.  No body text is lost; in particular every line of a text block     *)
(* that is classified as a list item appears in exactly one rendered list  *)
(* node.                                                                   *)
(***************************************************************************)
C2_ListLinesRenderedOnce ==
  pc = "done" =>
    \A n \in 1..Len(processedLines) :
       processedLines[n].isListItem => Cardinality(ItemNodes(n)) = 1

(***************************************************************************)
(* C3.  An input that is one inline-code span, a backtick, an inner text   *)
(* without backticks and a backtick, renders as one InlineCode span whose  *)
(* content is the inner text verbatim, and no Bold, Italic or              *)
(* Strikethrough span is produced from markers inside it.                  *)
(***************************************************************************)
IsOneCodeSpan(t) ==
  /\ Len(t) >= 3
  /\ Positions(t, BT) = {1, Len(t)}
  /\ Positions(t, NL) = {}

C3_InlineCodeIsLiteral ==
  (pc = "done" /\ IsOneCodeSpan(text)) =>
    /\ \E k \in 1..Len(out) :
          /\ NodesOfKind("InlineCode") = {k}
          /\ out[k].text = SubSeq(text, 2, Len(text) - 1)
    /\ \A k \in 1..Len(out) : out[k].kind \notin SpanKinds

(***************************************************************************)
(* C4.  Bold inside italic and italic inside bold parse as two nested span *)
(* levels: *x**y**z* renders as one Italic span that contains a Bold span, *)
(* and **x*y*z** as one Bold span that contains an Italic span.            *)
(***************************************************************************)
\* t is *x**y**z* with x, y, z non-empty and free of asterisks.
IsBoldInItalic(t) ==
  \E a, b \in 1..Len(t) :
     /\ 2 < a /\ a + 2 < b /\ b + 2 < Len(t)
     /\ Positions(t, "*") = {1, a, a + 1, b, b + 1, Len(t)}
     /\ Positions(t, NL) = {}

\* t is **x*y*z** with x, y, z non-empty and free of asterisks.
IsItalicInBold(t) ==
  \E a, b \in 1..Len(t) :
     /\ 3 < a /\ a + 1 < b /\ b + 1 < Len(t) - 1
     /\ Positions(t, "*") = {1, 2, a, b, Len(t) - 1, Len(t)}
     /\ Positions(t, NL) = {}

\* out holds exactly one span of kind outer and one of kind inner, and the
\* second is a child of the first.
Nested(outer, inner) ==
  \E k, j \in 1..Len(out) :
     /\ NodesOfKind(outer) = {k}
     /\ NodesOfKind(inner) = {j}
     /\ k < j
     /\ out[j].depth = out[k].depth + 1
     /\ \A n \in (k + 1)..j : out[n].depth > out[k].depth

C4_NestedSpans ==
  pc = "done" =>
    /\ IsBoldInItalic(text) => Nested("Italic", "Bold")
    /\ IsItalicInBold(text) => Nested("Bold", "Italic")

(***************************************************************************)
(* C5.  Levels may skip: a list item at level L with no preceding item at  *)
(* level L-1 in its run of list lines is rendered as a direct child of the *)
(* nearest preceding item of the run whose level is less than L.           *)
(***************************************************************************)
Level(n) == processedLines[n].level

\* Lines a..b of the last text block are all list items.
ListRun(a, b) == \A q \in a..b : processedLines[q].isListItem

\* p is the nearest item before n, in n's run, with a smaller level, and no
\* item of the run before n is at the level just above n's.
IsSkippedParent(p, n) ==
  /\ p < n
  /\ ListRun(p, n)
  /\ Level(p) < Level(n)
  /\ \A q \in (p + 1)..(n - 1) : Level(q) >= Level(n)
  /\ \A q \in 1..(n - 1) : ListRun(q, n) => Level(q) # Level(n) - 1

\* Node k is a direct child item of list node j.
IsChildItem(j, k) ==
  /\ j < k
  /\ out[k].depth = out[j].depth + 2
  /\ \A q \in (j + 1)..k : out[q].depth > out[j].depth

C5_SkippedLevelAttached ==
  pc = "done" =>
    \A n \in 1..Len(processedLines) : \A p \in 1..Len(processedLines) :
       IsSkippedParent(p, n) =>
         \E j \in ItemNodes(p) : \E k \in ItemNodes(n) : IsChildItem(j, k)

(***************************************************************************)
(* C6.  A maximal run of contiguous list-item lines forms one list region: *)
(* the items collected for a list reach back to the start of the run and   *)
(* forward to its end, whatever their levels.                              *)
(***************************************************************************)
\* The loop iteration that has just run collected a list.
AfterCollect == pc = "lines" /\ listItems # <<>>

\* The line (1-based) of the first collected item.
FirstCollected == listItems[1].index + 1

C6_OneRegionPerRun ==
  AfterCollect =>
    /\ i < Len(processedLines) => ~processedLines[i + 1].isListItem
    /\ FirstCollected > 1 => ~processedLines[FirstCollected - 1].isListItem

\* C6 as amended.  A list region is a maximal run of contiguous list-item
\* lines none of which is less indented than the first: it ends before the
\* first line that is not a list item or whose level is below the level of
\* the region's first line, and such a less indented list line starts a
\* region of its own.
C6_RegionStopsBelowFirstLevel ==
  AfterCollect =>
    /\ listItems = SubSeq(processedLines, FirstCollected, i)
    /\ \A n \in FirstCollected..i :
          /\ processedLines[n].isListItem
          /\ Level(n) >= Level(FirstCollected)
    /\ i < Len(processedLines) =>
          \/ ~processedLines[i + 1].isListItem
          \/ Level(i + 1) < Level(FirstCollected)
    /\ FirstCollected > 1 =>
          \/ ~processedLines[FirstCollected - 1].isListItem
          \/ Level(FirstCollected) < Level(FirstCollected - 1)

\* A region that ended at a less indented list line.
C6_Witness ==
  /\ AfterCollect
  /\ i < Len(processedLines)
  /\ processedLines[i + 1].isListItem

(***************************************************************************)
(* C7.  A fence with a language tag that spans the whole input, written    *)
(* fence, tag, newline, body, newline, fence, yields exactly one Code      *)
(* block and no Text block, with the tag as its language and the body      *)
(* without the newline before the closing fence as its content.            *)
(***************************************************************************)
TagEnd(t) == RunEnd(t, AlNum, 4)

IsWholeTaggedFence(t) ==
  /\ Len(t) >= 9
  /\ StartsAt(t, Fence, 1)
  /\ TagEnd(t) > 4
  /\ TagEnd(t) < Len(t) - 3
  /\ t[TagEnd(t)] = NL
  /\ t[Len(t) - 3] = NL
  /\ IndexFrom(t, Fence, 4) = Len(t) - 2

FenceTag(t) == SubSeq(t, 4, TagEnd(t) - 1)

FenceBody(t) == SubSeq(t, TagEnd(t) + 1, Len(t) - 4)

C7_ContentWithoutLastNewline ==
  (SplitOver /\ IsWholeTaggedFence(text)) =>
    blocks = <<CodeBlock(FenceBody(text), FenceTag(text))>>

\* C7 as amended.  Such an input yields exactly one Code block and no Text
\* block, with the tag as its language; its content is the body followed by
\* the newline that precedes the closing fence.
C7_ContentKeepsLastNewline ==
  (SplitOver /\ IsWholeTaggedFence(text)) =>
    blocks = <<CodeBlock(FenceBody(text) \o <<NL>>, FenceTag(text))>>

C7_Witness ==
  /\ SplitOver
  /\ IsWholeTaggedFence(text)
  /\ Len(FenceBody(text)) >= 3

(***************************************************************************)
(* C8.  For every matched fence whose opening line ends in a newline       *)
(* before the closing fence, the Code block's language is what is written  *)
(* on the opening line after the backticks (empty when nothing is) and its *)
(* content is exactly the text between that newline and the closing fence. *)
(***************************************************************************)
C8_TagAndContentOfEveryFence ==
  (pc = "split" /\ match.found) =>
    LET open == match.index + 1
        close == match.index + Len(match.full) - 2
        nl == IndexFrom(text, <<NL>>, open + 3)
        block == blocks[Len(blocks)]
    IN  (nl # 0 /\ nl < close) =>
          /\ block.type = "codeBlock"
          /\ block.language = SubSeq(text, open + 3, nl - 1)
          /\ block.content = SubSeq(text, nl + 1, close - 1)

(***************************************************************************)
(* C9.  The blocks are in source order and lose nothing but fence markers: *)
(* putting a fence, the language and its newline (when there is a          *)
(* language) before the content of every Code block and a fence after it,  *)
(* and concatenating all blocks in order, gives back the input; during the *)
(* loop it gives back the input up to lastIndex.                           *)
(***************************************************************************)
BlockSource(b) ==
  IF b.type = "codeBlock"
    THEN Fence \o (IF b.language # <<>> THEN b.language \o <<NL>> ELSE <<>>)
           \o b.content \o Fence
    ELSE b.content

RECURSIVE Unsplit(_)
Unsplit(bs) ==
  IF bs = <<>> THEN <<>> ELSE BlockSource(Head(bs)) \o Unsplit(Tail(bs))

C9_BlocksReconstructText ==
  /\ pc = "split" => Unsplit(blocks) = Slice(text, 0, lastIndex)
  /\ SplitOver => Unsplit(blocks) = text

\* Text, code, text.
C9_Witness ==
  /\ SplitOver
  /\ Len(blocks) >= 3
  /\ blocks[1].type = "text"
  /\ blocks[2].type = "codeBlock"
  /\ blocks[3].type = "text"

(***************************************************************************)
(* C10.  An unterminated fence is never code.  Reading the triple          *)
(* backticks of the input left to right without overlap and pairing them   *)
(* up, an odd one out at the end is an opener with no closer: there are    *)
(* exactly as many Code blocks as pairs, every match ends before that      *)
(* opener, and the last block is a Text block that holds the whole         *)
(* remainder of the input from the opener on.                              *)
(***************************************************************************)
RECURSIVE FenceTokensFrom(_, _)
FenceTokensFrom(t, from) ==
  LET p == IndexFrom(t, Fence, from)
  IN  IF p = 0 THEN <<>> ELSE <<p>> \o FenceTokensFrom(t, p + 3)

FenceTokens(t) == FenceTokensFrom(t, 1)

HasUnterminatedFence(t) == Len(FenceTokens(t)) % 2 = 1

\* The position of the opener that has no closer.
Opener(t) == FenceTokens(t)[Len(FenceTokens(t))]

C10_UnterminatedFenceIsText ==
  (SplitOver /\ HasUnterminatedFence(text)) =>
    LET rest == SubSeq(text, Opener(text), Len(text))
        last == blocks[Len(blocks)]
    IN  /\ Cardinality(CodeBlocks) = Len(FenceTokens(text)) \div 2
        /\ lastIndex < Opener(text)
        /\ blocks # <<>>
        /\ last.type = "text"
        /\ Len(last.content) >= Len(rest)
        /\ SubSeq(last.content, Len(last.content) - Len(rest) + 1,
                  Len(last.content)) = rest

\* A complete fence, then an opener that is never closed.
C10_Witness ==
  /\ SplitOver
  /\ HasUnterminatedFence(text)
  /\ Len(FenceTokens(text)) >= 3
  /\ Opener(text) < Len(text) - 2

(***************************************************************************)
(* C11.  The three lines "- a", "  - b", "- c" give one top-level list of  *)
(* two items, the first with the single child b and the second with none.  *)
(* In general a list item at level L+1 on the line right after an item at  *)
(* level L is rendered as that item's child, and the next item at level L  *)
(* of the run is rendered as that item's sibling.                          *)
(***************************************************************************)
ABCList == <<"-", SP, "a", NL, SP, SP, "-", SP, "b", NL, "-", SP, "c">>

\* The kind, depth and text of every rendered node, in document order.
Shape == [k \in 1..Len(out) |-> <<out[k].kind, out[k].depth, out[k].text>>]

ABCShape ==
  << <<"TextBlock", 1, <<>>>>,
     <<"ListGroup", 2, <<>>>>,
     <<"ListItem", 3, <<"bullet">>>>, <<"Plain", 4, <<"a">>>>,
     <<"ListGroup", 4, <<>>>>,
     <<"ListItem", 5, <<"bullet">>>>, <<"Plain", 6, <<"b">>>>,
     <<"ListItem", 3, <<"bullet">>>>, <<"Plain", 4, <<"c">>>> >>

\* Line m holds the next item of n's run at n's level.
IsNextAtLevel(n, m) ==
  /\ n < m
  /\ ListRun(n, m)
  /\ Level(m) = Level(n)
  /\ \A q \in (n + 1)..(m - 1) : Level(q) > Level(n)

\* Nodes j and k are items of the same list.
IsSiblingItem(j, k) ==
  /\ j < k
  /\ out[k].depth = out[j].depth
  /\ \A q \in j..k : out[q].depth >= out[j].depth

C11_ChildAndSibling ==
  pc = "done" =>
    /\ text = ABCList => Shape = ABCShape
    /\ \A n \in 1..Len(processedLines) : \A m \in 1..Len(processedLines) :
         /\ (m = n + 1 /\ ListRun(n, m) /\ Level(m) = Level(n) + 1) =>
              \E j \in ItemNodes(n) : \E k \in ItemNodes(m) : IsChildItem(j, k)
         /\ (IsNextAtLevel(n, m) /\ m > n + 1 /\ Level(n + 1) = Level(n) + 1) =>
              \E j \in ItemNodes(n) : \E k \in ItemNodes(m) : IsSiblingItem(j, k)

(***************************************************************************)
(* C12.  Every call of the inline formatter on a non-empty text processes  *)
(* the first of Image, Bold, Italic, Strikethrough, InlineCode, Link whose *)
(* pattern matches anywhere in the text: the element it builds is of that  *)
(* construct.  Only when none of the six matches does it emit one Plain    *)
(* leaf, holding the text verbatim.                                        *)
(***************************************************************************)
Priority == <<"Image", "Bold", "Italic", "Strikethrough", "InlineCode", "Link">>

Matches(kind, t) ==
  CASE kind = "Image" -> ImageMatch(t).found
    [] kind = "Bold" -> BoldMatch(t).found
    [] kind = "Italic" -> ItalicMatch(t).found
    [] kind = "Strikethrough" -> StrikethroughMatch(t).found
    [] kind = "InlineCode" -> InlineCodeMatch(t).found
    [] kind = "Link" -> LinkMatch(t).found

Matching(t) == {p \in 1..Len(Priority) : Matches(Priority[p], t)}

\* A formatter call on a non-empty text is about to run.
AtCall == Pending("fmt") /\ Head(work).s # <<>>

C12_FixedPriority ==
  [][ AtCall =>
        LET t == Head(work).s
        IN  IF Matching(t) = {}
              THEN /\ out' = Append(out, Node("Plain", Head(work).depth, t,
                                              <<>>, <<>>, 0, 0))
                   /\ work' = Tail(work)
              ELSE /\ out' = out
                   /\ Len(work') >= 2
                   /\ work'[2].op = "emit"
                   /\ work'[2].node.kind = Priority[Min(Matching(t))]
    ]_vars

\* A text in which a construct of lower priority matches as well was
\* rendered with the span of higher priority.
C12_Witness ==
  /\ pc = "done"
  /\ Matching(text) = {3, 5}
  /\ NodesOfKind("Italic") # {}
  /\ NodesOfKind("Plain") # {}

(***************************************************************************)
(* C13.  When a construct matches, the text is split at the leftmost       *)
(* occurrence of the matched text: prefix, matched text and suffix make up *)
(* the text, and the call returns the formatted prefix, the span, the      *)
(* formatted suffix, in this order.  So the spans come out in the order of *)
(* their source: writing the markers back around the spans of a rendered   *)
(* line gives the line, also when the matched text occurs more than once.  *)
(***************************************************************************)
\* The match the branch for the construct kind works with.
MatchOf(kind, t) ==
  CASE kind = "Image" -> ImageMatch(t)
    [] kind = "Bold" -> BoldMatch(t)
    [] kind = "Italic" -> ItalicMatch(t)
    [] kind = "Strikethrough" -> StrikethroughMatch(t)
    [] kind = "InlineCode" -> InlineCodeMatch(t)
    [] kind = "Link" -> LinkMatch(t)

Delimiter(kind) ==
  CASE kind = "Bold" -> <<"*", "*">>
    [] kind = "Italic" -> <<"*">>
    [] kind = "Strikethrough" -> <<"~", "~">>

\* The source of a leaf (captions are written after one space).
LeafSource(n) ==
  CASE n.kind = "Image" ->
         <<"!", "[">> \o n.text \o <<"]", "(">> \o n.url
           \o (IF n.caption # <<>>
                 THEN <<SP, QUOTE>> \o n.caption \o <<QUOTE>> ELSE <<>>)
           \o <<")">>
    [] n.kind = "Link" -> <<"[">> \o n.text \o <<"]", "(">> \o n.url \o <<")">>
    [] n.kind = "InlineCode" -> <<BT>> \o n.text \o <<BT>>
    [] OTHER -> n.text

\* The source of a sequence of rendered spans: a wrapping span holds the
\* nodes that follow it at a greater depth.
RECURSIVE SpanSource(_)
SpanSource(nodes) ==
  IF nodes = <<>> THEN <<>>
  ELSE LET n == Head(nodes)
           rest == Tail(nodes)
           stops == {q \in 1..Len(rest) : rest[q].depth <= n.depth}
           c == IF stops = {} THEN Len(rest) ELSE Min(stops) - 1
       IN  IF n.kind \in SpanKinds
             THEN Delimiter(n.kind) \o SpanSource(SubSeq(rest, 1, c))
                    \o Delimiter(n.kind)
                    \o SpanSource(SubSeq(rest, c + 1, Len(rest)))
             ELSE LeafSource(n) \o SpanSource(rest)

\* The text was rendered as one plain line.
IsOneLine ==
  /\ Len(out) >= 2
  /\ out[1].kind = "TextBlock"
  /\ out[2].kind = "Line"
  /\ NodesOfKind("Line") = {2}
  /\ NodesOfKind("TextBlock") = {1}
  /\ NodesOfKind("CodeBlock") = {}
  /\ NodesOfKind("Newline") = {}

\* The text has an image with the caption "": it is rendered like an image
\* without a caption, so its source is not read back from the elements.
EmptyCaption(t) ==
  \E p \in 1..Len(t) : StartsAt(t, <<SP, QUOTE, QUOTE, ")">>, p)

C13_SplitAtLeftmost ==
  [][ /\ (AtCall /\ Matching(Head(work).s) # {}) =>
           LET t == Head(work).s
               m == MatchOf(Priority[Min(Matching(t))], t)
               prefix == work'[1].s
               suffix == work'[Len(work') - Len(work) + 1].s
           IN  /\ work'[1].op = "fmt"
               /\ work'[Len(work') - Len(work) + 1].op = "fmt"
               /\ work'[2].op = "emit"
               /\ prefix = SubSeq(t, 1, m.index)
               /\ prefix \o m.full \o suffix = t
               /\ \A q \in 1..m.index : ~StartsAt(t, m.full, q)
      /\ (pc' = "done" /\ IsOneLine' /\ ~EmptyCaption(text')) =>
           SpanSource(SubSeq(out', 3, Len(out'))) = text'
    ]_vars

\* The text matched by the first call occurs more than once in the line.
C13_Witness ==
  /\ pc = "done"
  /\ IsOneLine
  /\ Matching(text) # {}
  /\ Len(Split(text, MatchOf(Priority[Min(Matching(text))], text).full)) >= 3
  /\ Cardinality(NodesOfKind(Priority[Min(Matching(text))])) >= 2

(***************************************************************************)
(* C14.  Link text, link URLs and image alt and caption text are literal.  *)
(* For a line that is exactly one link [text](url) or exactly one image    *)
(* ![alt](url), whatever markers its parts hold: the line renders as       *)
(* that one Link or Image span, with its parts verbatim, and no Bold,      *)
(* Italic, Strikethrough or InlineCode span.                               *)
(***************************************************************************)
IsWholeImage(t) ==
  LET m == ImageMatch(t) IN m.found /\ m.index = 0 /\ m.full = t

IsWholeLink(t) ==
  LET m == LinkMatch(t)
  IN  m.found /\ m.index = 0 /\ m.full = t /\ ~ImageMatch(t).found

C14_LinkAndImagePartsLiteral ==
  (pc = "done" /\ IsOneLine) =>
    /\ IsWholeLink(text) =>
         /\ Len(out) = 3
         /\ out[3].kind = "Link"
         /\ out[3].text = LinkMatch(text).g1
         /\ out[3].url = LinkMatch(text).g2
    /\ IsWholeImage(text) =>
         /\ Len(out) = 3
         /\ out[3].kind = "Image"
         /\ out[3].text = ImageMatch(text).g1
         /\ out[3].url = ImageMatch(text).g2
         /\ out[3].caption = ImageMatch(text).g3

(***************************************************************************)
(* C15.  A line that is exactly one image with a caption,                  *)
(* ![alt](url "caption"), renders as exactly one Image node whose alt, url *)
(* and caption are the three parts -- the url holds neither the caption    *)
(* nor its quotes -- and no Link node.                                     *)
(***************************************************************************)
\* Where the alt text ends: the first "](".
AltEnd(t) == IndexFrom(t, <<"]", "(">>, 3)

\* Where the url ends: the space before the caption's opening quote.
UrlEnd(t) == IndexFrom(t, <<SP, QUOTE>>, AltEnd(t) + 2)

ImageAlt(t) == SubSeq(t, 3, AltEnd(t) - 1)

ImageUrl(t) == SubSeq(t, AltEnd(t) + 2, UrlEnd(t) - 1)

ImageCaption(t) == SubSeq(t, UrlEnd(t) + 2, Len(t) - 2)

IsCaptionedImage(t) ==
  /\ StartsAt(t, <<"!", "[">>, 1)
  /\ AltEnd(t) # 0
  /\ UrlEnd(t) # 0
  /\ UrlEnd(t) + 3 <= Len(t)
  /\ StartsAt(t, <<QUOTE, ")">>, Len(t) - 1)
  /\ Positions(ImageUrl(t), ")") = {}
  /\ Positions(ImageCaption(t), QUOTE) = {}

C15_CaptionedImage ==
  (pc = "done" /\ IsCaptionedImage(text)) =>
    /\ Len(out) = 3
    /\ out[3] = Node("Image", 3, ImageAlt(text), ImageUrl(text),
                     ImageCaption(text), 0, 0)
    /\ NodesOfKind("Link") = {}

\* The alt, the url and the caption are all there.
C15_Witness ==
  /\ pc = "done"
  /\ IsCaptionedImage(text)
  /\ ImageAlt(text) # <<>>
  /\ ImageUrl(text) # <<>>
  /\ Len(ImageCaption(text)) >= 3

(***************************************************************************)
(* C16.  No leaf of the rendered span tree -- a plain leaf, the content of *)
(* an inline code span, the text of a link, the alt text of an image --    *)
(* holds text that matches one of the six constructs: formatting a leaf's  *)
(* text again gives one plain leaf and no further span.                    *)
(***************************************************************************)
LeafKinds == {"Plain", "InlineCode", "Link", "Image"}

C16_NoLeafMatches ==
  \A k \in 1..Len(out) :
     out[k].kind \in LeafKinds => Matching(out[k].text) = {}

\* C16 as amended.  No plain-text leaf holds text that matches one of the
\* six constructs, so formatting a plain leaf's text again gives that one
\* plain leaf and no further span.  (The literal content of an inline code
\* span, a link or an image is not looked into and may match a construct.)
C16_NoPlainLeafMatches ==
  \A k \in NodesOfKind("Plain") :
     /\ out[k].text # <<>>
     /\ Matching(out[k].text) = {}

\* Plain leaves before, inside and after a span.
C16_Witness ==
  /\ pc = "done"
  /\ NodesOfKind("Bold") # {}
  /\ NodesOfKind("Italic") # {}
  /\ Cardinality(NodesOfKind("Plain")) >= 3

(***************************************************************************)
(* C17.  For a code block in a supported language the highlighter renders  *)
(* one line element per line of the code, in order, and the texts of a     *)
(* line's segments (plain text, keywords, strings, then the comment if     *)
(* there is one), concatenated in the order in which they are rendered,    *)
(* are the line exactly: no character is dropped, duplicated or moved.     *)
(* The comment, when there is one, is the last segment of its line, and a  *)
(* line break follows every line but the last.                             *)
(***************************************************************************)
\* The nodes rendered inside node k.
Children(k) ==
  LET stops == {q \in (k + 1)..Len(out) : out[q].depth <= out[k].depth}
  IN  (k + 1)..((IF stops = {} THEN Len(out) + 1 ELSE Min(stops)) - 1)

\* The texts of the nodes from a to b, but the line breaks, concatenated.
RECURSIVE SegmentText(_, _)
SegmentText(a, b) ==
  IF a > b THEN <<>>
  ELSE (IF out[a].kind = "LineBreak" THEN <<>> ELSE out[a].text)
         \o SegmentText(a + 1, b)

CodeLineNodes(k) == {q \in Children(k) : out[q].kind = "CodeLine"}

\* Node k is the last in the set S of nodes.
IsLastOf(k, S) == k \in S /\ \A j \in S : j <= k

HighlightedLine(q, lines) ==
  LET segments == Children(q)
      breaks == {j \in segments : out[j].kind = "LineBreak"}
  IN  /\ out[q].line < Len(lines)
      /\ SegmentText(q + 1, q + Cardinality(segments)) = lines[out[q].line + 1]
      /\ \A j \in segments :
            out[j].kind = "Comment" => IsLastOf(j, segments \ breaks)
      /\ \A j \in breaks : IsLastOf(j, segments)
      /\ (breaks # {}) <=> (out[q].line < Len(lines) - 1)

C17_SegmentsReproduceLine ==
  pc = "done" =>
    \A k \in NodesOfKind("CodeBlock") :
       out[k].url \in SupportedLanguages =>
         LET lines == Split(out[k].text, <<NL>>)
         IN  /\ Cardinality(CodeLineNodes(k)) = Len(lines)
             /\ \A q \in CodeLineNodes(k) : HighlightedLine(q, lines)
             /\ \A q \in CodeLineNodes(k) : \A r \in CodeLineNodes(k) :
                   q < r => out[q].line < out[r].line
             /\ \A j \in Children(k) :
                   out[j].kind = "CodeLine" \/ out[j].depth = 3

\* A line with a keyword, a string and a comment.
C17_Witness ==
  /\ pc = "done"
  /\ \E q \in NodesOfKind("CodeLine") :
        /\ \E j \in Children(q) : out[j].kind = "Keyword"
        /\ \E j \in Children(q) : out[j].kind = "String"
        /\ \E j \in Children(q) : out[j].kind = "Comment"
        /\ \E j \in Children(q) : out[j].kind = "Code"


(***************************************************************************)
(* The notification of the host.                                           *)
(***************************************************************************)
\* The calls of onContentRendered made while the e-th text was rendered.
CallsDuring(e) == {k \in DOMAIN calls : calls[k].during = e}

\* C18: onContentRendered is invoked at most once for a given text value:
\* whatever layout events, image loads and re-renders with the same text
\* (a new callback included) have happened since the component was mounted
\* with the text, the number of calls is 0 or 1; and for every later text
\* at most one call is ever scheduled.
C18_AtMostOneCall ==
  /\ epoch = 0 => Len(calls) <= 1
  /\ \A a, b \in DOMAIN calls : a # b => calls[a].epoch # calls[b].epoch

\* C18, its case: the call has been made for the first text, and after it
\* an image has loaded and the host has passed another callback, which a
\* render has taken up.
C18_Witness ==
  /\ epoch = 0
  /\ Len(calls) = 1
  /\ loads > calls[1].loaded
  /\ onContentRendered \notin {0, calls[1].callback}
  /\ notifyDeps[4] = onContentRendered

\* C19: onContentRendered is invoked only after all images of the content
\* have loaded: at every call, the image loads received equal the images of
\* the text, for the first text as for the later ones.
C19_CalledAfterAllImagesLoaded ==
  \A k \in DOMAIN calls : calls[k].loaded = calls[k].images

\* The component is at rest: every change of its props and state has been
\* rendered and no timer is pending.
AtRest ==
  /\ mounted
  /\ text = textDeps
  /\ Deps = notifyDeps
  /\ ~timer.pending

\* C20: with onContentRendered provided, once the layout event has occurred
\* and every image has loaded, onContentRendered is invoked: a component at
\* rest whose content is laid out and whose images have all loaded has
\* called it for this text.
C20_NotifiedOnceRenderedAndLoaded ==
  (/\ AtRest
   /\ onContentRendered # 0
   /\ contentRendered
   /\ loads = ImagesIn(text))
    => CallsDuring(epoch) # {}

(***************************************************************************)
(* The notification of the host by MessageBubble.                          *)
(***************************************************************************)
\* At most one call for each message the bubble displays.
OncePerMessage ==
  \A a, b \in DOMAIN bubble.calls :
     a # b => bubble.calls[a].shown # bubble.calls[b].shown

\* No call for a user message.
NeverForUser == \A k \in DOMAIN bubble.calls : ~bubble.calls[k].isUser

\* The first measured layout of an assistant message notifies the host,
\* when there is a callback.
NotifiedOnFirstLayout ==
  \A l \in bubble.layouts :
     (l.first /\ ~l.isUser /\ l.onContentRendered # 0) => l.notified

\* C21: MessageBubble notifies once per message: for each message id it
\* displays, onContentRendered is invoked at most once, never for a user
\* message, and when the bubble is reused for another assistant message the
\* new message is notified on its first measured layout, whichever of the
\* layout callback and the reset effect runs first.
C21_OncePerMessage ==
  OncePerMessage /\ NeverForUser /\ NotifiedOnFirstLayout

(***************************************************************************)
(* The API key.                                                            *)
(***************************************************************************)
\* The calls that are inside refreshApiKey between isRefreshing = true and
\* the finally block.
Refreshing ==
  {t \in 1..MaxCalls :
     /\ api.calls[t].op \in {"refreshApiKey", "sendMessage"}
     /\ api.calls[t].pc \in {"reading", "read"}}

\* C22: at most one refresh of the API key is in flight at a time: while a
\* call of refreshApiKey is between isRefreshing = true and its finally
\* block, no other call reads storage, and isRefreshing stays true until
\* that refresh finishes.
C22_OneRefreshInFlight ==
  /\ Cardinality(Refreshing) <= 1
  /\ Refreshing # {} => api.isRefreshing

\* C23: sendMessage sends no request when no API key is stored: as long as
\* no key was ever saved, no HTTP call has been made, whatever calls of
\* initializeApiKey, refreshApiKey and sendMessage overlap.
C23_NoRequestWithoutKey == api.requests # <<>> => api.keyStored

(***************************************************************************)
(* The event emitter.                                                      *)
(***************************************************************************)
\* C24: the unsubscribe function returned by on(event, cb) removes exactly
\* the registration it was returned for: after a call of it, the listeners
\* of the event are those of before the call without that registration, in
\* the same order; a second registration of the same callback stays.
C24_UnsubscribeRemovesOwnRegistration ==
  emitter.last.op = "unsubscribe" =>
    emitter.events[emitter.last.event]
      = SelectSeq(emitter.last.before, LAMBDA x : x.reg # emitter.last.reg)

\* C25: emit(event) invokes every listener that is registered for the event
\* when emit starts, once each and in the order of registration, even when
\* an earlier listener throws or a listener unsubscribes itself or another
\* listener during the emit; emit does not throw, and with no listeners it
\* does nothing.
C25_EmitInvokesAll ==
  emitter.last.op = "emit" =>
    /\ ~emitter.last.threw
    /\ Len(emitter.invoked) = Len(emitter.last.before)
    /\ \A k \in DOMAIN emitter.invoked :
          /\ emitter.invoked[k].reg = emitter.last.before[k].reg
          /\ emitter.invoked[k].callback = emitter.last.before[k].callback
    /\ emitter.last.before = <<>> =>
          emitter.events[emitter.last.event] = <<>>

\* C25, its case: an emit whose first listener throws, whose second listener
\* unsubscribes the third, and the third was called all the same.
C25_Witness ==
  /\ emitter.last.op = "emit"
  /\ Len(emitter.last.before) = 3
  /\ emitter.last.before[1].callback = Throws
  /\ emitter.last.before[2].callback = UnsubscribesOther
  /\ emitter.last.before[3].callback = Returns
  /\ Len(emitter.invoked) = 3
  /\ Len(emitter.events[emitter.last.event]) = 2

(***************************************************************************)
(* The stored chats and rooms.                                             *)
(***************************************************************************)
\* The positions in the stored chat list of the chats with the id.
StoredAt(id) == {k \in DOMAIN storage.chats : storage.chats[k].id = id}

C27_RoomsSorted ==
  \A k \in 1..(Len(storage.rooms) - 1) :
     OrZero(storage.rooms[k].lastMessageTime)
       >= OrZero(storage.rooms[k + 1].lastMessageTime)

=========================================================================
